---- MODULE Spec2Model ----
(***************************************************************************)
(* State-machine model of the WoWSQL Go SDK domain clients:                *)
(*   AuthClient     src/wowsql/auth_client.go                              *)
(*   StorageClient  src/unnamed/part_000                                   *)
(*   SchemaClient   src/schema.go ("root") and src/WOWSQL/schema.go ("pkg")*)
(* Every call is a small process: it validates locally, sends a request,   *)
(* receives the outcome of the round trip and returns.  The remote server  *)
(* and the transport are the environment: they choose the outcome.         *)
(***************************************************************************)
EXTENDS Integers, Sequences, FiniteSets, TLC

\* ---------------------------------------------------------------- bounds
\* goroutines calling into the clients
NumProcs == 2
\* largest payload size and largest available_bytes the environment reports
MaxBytes == 2

Procs == 1..NumProcs
Sizes == 0..MaxBytes

\* ---------------------------------------------------------------- values
\* "" is Go's empty string, the zero value of a missing JSON field
AccessTokens == {"", "a1", "a2"}
RefreshTokens == {"", "r1", "r2"}
\* the underlying error http.Client.Do reports
TransportErrs == {"connect", "timeout"}
Statuses == {200, 201, 300, 401, 403, 404, 500}
Purposes == {"login", "signup", "password_reset", "email_verification", "other"}

\* AuthSession, src/wowsql/auth_client.go:53-58
AuthSession(a, r, tt, e) ==
    [AccessToken |-> a, RefreshToken |-> r, TokenType |-> tt, ExpiresIn |-> e]

\* the zero AuthSession{}
ZeroSession == AuthSession("", "", "", 0)

\* ---------------------------------------------------------------- bodies
\* A response body as the clients read it: readable (io.ReadAll succeeds),
\* valid (it is JSON of the shape the decoder accepts), and the fields the
\* decoders look at; a missing field has Go's zero value.
Body(rd, v, a, r, tt, e, av, d) ==
    [readable |-> rd, valid |-> v, access_token |-> a, refresh_token |-> r,
     token_type |-> tt, expires_in |-> e, storage_available_bytes |-> av,
     detail |-> d]

Unreadable == Body(FALSE, FALSE, "", "", "", 0, 0, "")
Garbage == Body(TRUE, FALSE, "", "", "", 0, 0, "")
EmptyObject == Body(TRUE, TRUE, "", "", "", 0, 0, "")
DetailObject == Body(TRUE, TRUE, "", "", "", 0, 0, "msg")

\* the JSON objects a sign-in endpoint answers with; fields may be missing
SessionBodies ==
    {Body(TRUE, TRUE, "a1", "r1", "bearer", 3600, 0, ""),
     Body(TRUE, TRUE, "a2", "r2", "bearer", 0, 0, ""),
     Body(TRUE, TRUE, "a2", "r2", "mac", 3600, 0, ""),
     Body(TRUE, TRUE, "a1", "", "bearer", 0, 0, ""),
     EmptyObject}

QuotaBodies == {Body(TRUE, TRUE, "", "", "", 0, n, "") : n \in Sizes}

ErrorBodies == {Unreadable, Garbage, EmptyObject}

\* ---------------------------------------------------------------- errors
\* A Go error value: its dynamic type (kind), the error it wraps (cause), and
\* the fields the error types carry.
Err(kind, cause, status, msg, req, avail) ==
    [kind |-> kind, cause |-> cause, status |-> status, msg |-> msg,
     required |-> req, available |-> avail]

Nil == Err("nil", "none", 0, "", 0, 0)

\* fmt.Errorf without %w
ErrorString(msg) == Err("errorString", "none", 0, msg, 0, 0)
\* fmt.Errorf with %w
WrapError(msg, cause) == Err("wrapError", cause, 0, msg, 0, 0)


\* ---------------------------------------------------------------- transport
\* The outcome of one http.Client.Do: a transport failure (no response), or a
\* response with a status and a body.
TransportFailure(te) == [kind |-> "transport", status |-> 0, terr |-> te, body |-> Unreadable]
Http(s, b) == [kind |-> "http", status |-> s, terr |-> "none", body |-> b]

\* A request as it leaves the client. authorization is the credential that
\* follows "Bearer ", or "absent" when the header is not set.
Request(method, path, authorization) ==
    [method |-> method, path |-> path, authorization |-> authorization]

\* What a handler hands back: the error (Nil on success), the AuthSession of
\* an AuthResult or of GetSession, the boolean of FileExists.
Ret(err, session, exists) == [err |-> err, session |-> session, exists |-> exists]
NoRet == Ret(Nil, ZeroSession, FALSE)

\* ---------------------------------------------------------------- error mapper
\* The status classes of the error taxonomy.
ErrorKindOfStatus(status) ==
    IF status = 401 THEN "AuthenticationError"
    ELSE IF status = 403 THEN "PermissionError"
    ELSE IF status = 404 THEN "NotFoundError"
    ELSE IF status = 429 THEN "RateLimitError"
    ELSE IF status >= 500 THEN "ServerError"
    ELSE IF status >= 400 THEN "ValidationError"
    ELSE "WOWSQLError"

\* parseError: classify a non-2xx response; an unparseable body degrades to
\* the generic error carrying the raw status and body text.
parseError(status, body) ==
    IF ~body.valid
    THEN Err("WOWSQLError", "none", status, "raw body", 0, 0)
    ELSE Err(ErrorKindOfStatus(status), "none", status, body.detail, 0, 0)

\* parseStorageError: as parseError, with the server-reported quota violation.
parseStorageError(status, body) ==
    IF ~body.valid
    THEN Err("StorageError", "none", status, "raw body", 0, 0)
    ELSE IF status = 413
    THEN Err("StorageLimitExceededError", "none", status, body.detail, 0, 0)
    ELSE Err(ErrorKindOfStatus(status), "none", status, body.detail, 0, 0)

\* ---------------------------------------------------------------- auth: pure parts
\* AuthClient.doRequest from http.Client.Do on: ([]byte, error)
AuthDoRequest(o) ==
    IF o.kind = "transport"
    THEN [body |-> Unreadable, err |-> Err("NetworkError", o.terr, 0, "", 0, 0)]
    ELSE IF ~o.body.readable
    THEN [body |-> Unreadable, err |-> WrapError("failed to read response body", "read")]
    ELSE IF o.status < 200 \/ o.status >= 300
    THEN [body |-> Unreadable, err |-> parseError(o.status, o.body)]
    ELSE [body |-> o.body, err |-> Nil]

\* the AuthSession built from a decoded authResponse / loginResponse
SessionOf(body) ==
    AuthSession(body.access_token, body.refresh_token, body.token_type, body.expires_in)

\* What a handler does with doRequest's answer: the value it returns and
\* whether it calls persistSession on the way.
Outcome(err, session, persist) == [err |-> err, session |-> session, persist |-> persist]

SignUpResult(o) ==
    LET r == AuthDoRequest(o) IN
    IF r.err # Nil THEN Outcome(r.err, ZeroSession, FALSE)
    ELSE IF ~r.body.valid
    THEN Outcome(WrapError("failed to parse signup response", "json"), ZeroSession, FALSE)
    ELSE Outcome(Nil, SessionOf(r.body), TRUE)

\* mutant of SignInResult: a failed sign-in clears the stored session
SignInResultClearsOnFailure(o) ==
    LET r == AuthDoRequest(o) IN
    IF r.err # Nil THEN Outcome(r.err, ZeroSession, TRUE)
    ELSE IF ~r.body.valid
    THEN Outcome(WrapError("failed to parse login response", "json"), ZeroSession, FALSE)
    ELSE Outcome(Nil, SessionOf(r.body), TRUE)

SignInResult(o) ==
    LET r == AuthDoRequest(o) IN
    IF r.err # Nil THEN Outcome(r.err, ZeroSession, FALSE)
    ELSE IF ~r.body.valid
    THEN Outcome(WrapError("failed to parse login response", "json"), ZeroSession, FALSE)
    ELSE Outcome(Nil, SessionOf(r.body), TRUE)

ExchangeOAuthCallbackResult(o) ==
    LET r == AuthDoRequest(o) IN
    IF r.err # Nil THEN Outcome(r.err, ZeroSession, FALSE)
    ELSE IF ~r.body.valid
    THEN Outcome(WrapError("failed to parse oauth callback response", "json"), ZeroSession, FALSE)
    ELSE Outcome(Nil, SessionOf(r.body), TRUE)

VerifyOTPResult(purpose, o) ==
    LET r == AuthDoRequest(o) IN
    IF r.err # Nil THEN Outcome(r.err, ZeroSession, FALSE)
    ELSE IF ~r.body.valid
    THEN Outcome(WrapError("failed to parse verify OTP response", "json"), ZeroSession, FALSE)
    ELSE IF purpose = "password_reset"
    THEN Outcome(Nil, ZeroSession, FALSE)
    ELSE Outcome(Nil, SessionOf(r.body), TRUE)

\* mutant of AuthPlainResult: the decoded answer is persisted as a session
AuthPlainResultPersists(o) ==
    LET r == AuthDoRequest(o) IN
    IF r.err # Nil THEN Outcome(r.err, ZeroSession, FALSE)
    ELSE IF ~r.body.valid
    THEN Outcome(WrapError("failed to parse response", "json"), ZeroSession, FALSE)
    ELSE Outcome(Nil, SessionOf(r.body), TRUE)

\* GetUser, GetOAuthAuthorizationURL, ForgotPassword, ResetPassword, SendOTP,
\* SendMagicLink, VerifyEmail, ResendVerification: doRequest, then decode.
AuthPlainResult(o) ==
    LET r == AuthDoRequest(o) IN
    IF r.err # Nil THEN Outcome(r.err, ZeroSession, FALSE)
    ELSE IF ~r.body.valid
    THEN Outcome(WrapError("failed to parse response", "json"), ZeroSession, FALSE)
    ELSE Outcome(Nil, ZeroSession, FALSE)

SessionOps == {"SignUp", "SignIn", "VerifyOTP", "ExchangeOAuthCallback"}

AuthResult(c, o) ==
    IF c.op = "SignUp" THEN SignUpResult(o)
    ELSE IF c.op = "SignIn" THEN SignInResult(o)
    ELSE IF c.op = "ExchangeOAuthCallback" THEN ExchangeOAuthCallbackResult(o)
    ELSE IF c.op = "VerifyOTP" THEN VerifyOTPResult(c.purpose, o)
    ELSE AuthPlainResult(o)


\* ---------------------------------------------------------------- storage: pure parts
\* StorageClient.doRequest from http.Client.Do on: ([]byte, error)
StorageDoRequest(o) ==
    IF o.kind = "transport"
    THEN [body |-> Unreadable, err |-> Err("StorageError", o.terr, 0, "", 0, 0)]
    ELSE IF ~o.body.readable
    THEN [body |-> Unreadable, err |-> WrapError("failed to read response body", "read")]
    ELSE IF o.status < 200 \/ o.status >= 300
    THEN [body |-> Unreadable, err |-> parseStorageError(o.status, o.body)]
    ELSE [body |-> o.body, err |-> Nil]

\* GetQuota: (*StorageQuota, error); available is StorageAvailableBytes
GetQuotaResult(o) ==
    LET r == StorageDoRequest(o) IN
    IF r.err # Nil THEN [available |-> 0, err |-> r.err]
    ELSE IF ~r.body.valid
    THEN [available |-> 0, err |-> WrapError("failed to parse response", "json")]
    ELSE [available |-> r.body.storage_available_bytes, err |-> Nil]

\* mutant of ShouldCheck: an explicit false does not switch the pre-check off
ShouldCheckIgnoresFalse(auto, checkQuota) ==
    IF checkQuota = "true" THEN TRUE ELSE auto

\* Upload: shouldCheck from the client setting and the per-call override
ShouldCheck(auto, checkQuota) ==
    IF checkQuota # "nil" THEN checkQuota = "true" ELSE auto

\* mutant of QuotaInsufficient: a payload of exactly the available size is
\* turned away
QuotaInsufficientRejectsEqual(available, size) == available <= size

\* mutant of QuotaInsufficient: the comparison is off by one
QuotaInsufficientOffByOne(available, size) == available + 1 < size

\* Upload: quota.StorageAvailableBytes < int64(len(fileData))
QuotaInsufficient(available, size) == available < size

\* Upload: the StorageLimitExceededError of the pre-check
LimitExceeded(size, available) ==
    Err("StorageLimitExceededError", "none", 0, "Storage limit exceeded", size, available)

\* Upload from http.Client.Do of the multipart request on
UploadSendResult(o) ==
    IF o.kind = "transport"
    THEN Err("StorageError", o.terr, 0, "", 0, 0)
    ELSE IF ~o.body.readable
    THEN WrapError("failed to read response body", "read")
    ELSE IF o.status < 200 \/ o.status >= 300
    THEN parseStorageError(o.status, o.body)
    ELSE IF ~o.body.valid
    THEN WrapError("failed to parse response", "json")
    ELSE Nil

\* GetFileInfo: the error it returns (Nil with a *StorageFile)
GetFileInfoResult(o) ==
    LET r == StorageDoRequest(o) IN
    IF r.err # Nil THEN r.err
    ELSE IF ~r.body.valid THEN WrapError("failed to parse response", "json")
    ELSE Nil

\* mutant of FileExistsResult: every error counts as absence
FileExistsResultSwallows(o) ==
    IF GetFileInfoResult(o) # Nil
    THEN Ret(Nil, ZeroSession, FALSE)
    ELSE Ret(Nil, ZeroSession, TRUE)

\* FileExists: (bool, error) from GetFileInfo's error
FileExistsResult(o) ==
    LET err == GetFileInfoResult(o) IN
    IF err # Nil
    THEN IF err.kind = "NotFoundError"
         THEN Ret(Nil, ZeroSession, FALSE)
         ELSE Ret(err, ZeroSession, FALSE)
    ELSE Ret(Nil, ZeroSession, TRUE)

\* mutant of StorageDecodeResult: a body that does not decode is let through
StorageDecodeResultSwallows(o) == StorageDoRequest(o).err

\* Download, ListFiles, GetFileUrl, GetPresignedUrl, GetStorageInfo,
\* ProvisionStorage, GetAvailableRegions: doRequest, then json.Unmarshal
StorageDecodeResult(o) ==
    LET r == StorageDoRequest(o) IN
    IF r.err # Nil THEN r.err
    ELSE IF ~r.body.valid THEN WrapError("failed to parse response", "json")
    ELSE Nil

\* DeleteFile, DeleteFiles: doRequest's error, the body is dropped
StorageDeleteResult(o) == StorageDoRequest(o).err

Route(method, path) == [method |-> method, path |-> path]

\* method and path of the storage operations that are one doRequest
StorageRoutes ==
    [Download |-> Route("GET", "/api/v1/storage/download"),
     ListFiles |-> Route("GET", "/api/v1/storage/list"),
     DeleteFile |-> Route("DELETE", "/api/v1/storage/delete"),
     DeleteFiles |-> Route("DELETE", "/api/v1/storage/delete-batch"),
     GetFileUrl |-> Route("GET", "/api/v1/storage/s3/projects/slug/files/key/url"),
     GetPresignedUrl |-> Route("POST", "/api/v1/storage/s3/projects/slug/presigned-url"),
     GetStorageInfo |-> Route("GET", "/api/v1/storage/s3/projects/slug/info"),
     ProvisionStorage |-> Route("POST", "/api/v1/storage/s3/projects/slug/provision"),
     GetAvailableRegions |-> Route("GET", "/api/v1/storage/s3/regions")]

StorageResult(c, o) ==
    IF c.op = "GetQuota" THEN Ret(GetQuotaResult(o).err, ZeroSession, FALSE)
    ELSE IF c.op = "GetFileInfo" THEN Ret(GetFileInfoResult(o), ZeroSession, FALSE)
    ELSE IF c.op = "FileExists" THEN FileExistsResult(o)
    ELSE IF c.op \in {"DeleteFile", "DeleteFiles"} THEN Ret(StorageDeleteResult(o), ZeroSession, FALSE)
    ELSE Ret(StorageDecodeResult(o), ZeroSession, FALSE)

\* ---------------------------------------------------------------- schema: pure parts
SchemaOps == {"CreateTable", "AlterTable", "DropTable", "ExecuteSQL"}
SchemaImpls == {"root", "pkg"}

\* the statuses an implementation takes for success
SchemaSuccess(impl, op, status) ==
    IF impl = "pkg" /\ op = "CreateTable" THEN status = 200 \/ status = 201
    ELSE status = 200

\* the error for a 403 answer
SchemaForbidden(impl, op) ==
    ErrorString("schema operations require a SERVICE ROLE key")

\* the error for any other unsuccessful status
SchemaFailure(impl, op, status, body) ==
    IF impl = "root"
    THEN ErrorString(IF body.valid /\ body.detail # "" THEN body.detail ELSE "<nil>")
    ELSE IF body.valid /\ body.detail # ""
         THEN ErrorString(body.detail)
         ELSE Err("errorString", "none", status, "status", 0, 0)

\* CreateTable, AlterTable, DropTable, ExecuteSQL from http.Client.Do on
SchemaResult(impl, op, o) ==
    IF o.kind = "transport"
    THEN WrapError(IF impl = "root" THEN "failed to execute request" ELSE "request failed", o.terr)
    ELSE IF o.status = 403 THEN SchemaForbidden(impl, op)
    ELSE IF ~SchemaSuccess(impl, op, o.status) THEN SchemaFailure(impl, op, o.status, o.body)
    ELSE IF ~o.body.valid
    THEN WrapError("failed to decode response", IF o.body.readable THEN "json" ELSE "read")
    ELSE Nil

SchemaRoute(op) ==
    IF op = "CreateTable" THEN Route("POST", "/api/v2/schema/tables")
    ELSE IF op = "AlterTable" THEN Route("PATCH", "/api/v2/schema/tables/name")
    ELSE IF op = "DropTable" THEN Route("DELETE", "/api/v2/schema/tables/name")
    ELSE Route("POST", "/api/v2/schema/execute")


\* ---------------------------------------------------------------- URLs: pure parts
\* A string is the sequence of its pieces: the piece "/" is the character,
\* "http:" and "https:" are the scheme with its colon, every other piece is
\* a run of letters.  Prefix, suffix and substring tests on pieces agree
\* with the tests on characters because no piece is part of another.
Slash == <<"/">>
Space == <<" ">>
Dot == <<".">>
ApiSuffix == <<"/", "api">>
ApiAuth == <<"/", "api", "/", "auth">>
HttpPrefix == <<"http:", "/", "/">>
HttpsPrefix == <<"https:", "/", "/">>
DefaultBaseDomain == <<"wowsql", ".", "com">>

\* strings.HasPrefix, strings.HasSuffix, strings.TrimSuffix, strings.Contains
HasPrefix(s, t) == Len(s) >= Len(t) /\ SubSeq(s, 1, Len(t)) = t
HasSuffix(s, t) == Len(s) >= Len(t) /\ SubSeq(s, Len(s) - Len(t) + 1, Len(s)) = t
TrimSuffix(s, t) == IF HasSuffix(s, t) THEN SubSeq(s, 1, Len(s) - Len(t)) ELSE s
Contains(s, t) == \E i \in 1..(Len(s) - Len(t) + 1) : SubSeq(s, i, i + Len(t) - 1) = t

\* strings.TrimSpace
TrimSpace(s) ==
    LET solid == {i \in 1..Len(s) : s[i] # " "} IN
    IF solid = {} THEN <<>>
    ELSE SubSeq(s, CHOOSE i \in solid : \A j \in solid : i <= j,
                   CHOOSE i \in solid : \A j \in solid : j <= i)

\* buildAuthBaseURL: the tail both branches share
AuthBaseTail(normalized) ==
    LET trimmed == TrimSuffix(normalized, Slash)
    IN  (IF HasSuffix(trimmed, ApiSuffix) THEN TrimSuffix(trimmed, ApiSuffix) ELSE trimmed)
        \o ApiAuth

\* mutant of buildAuthBaseURL: the Secure flag decides the scheme of a full
\* URL too
buildAuthBaseURLForcesScheme(projectURL, baseDomain, secure) ==
    LET domain == IF baseDomain = <<>> THEN DefaultBaseDomain ELSE baseDomain
        normalized == TrimSpace(projectURL)
        protocol == IF secure THEN HttpsPrefix ELSE HttpPrefix
    IN  IF HasPrefix(normalized, HttpPrefix)
        THEN AuthBaseTail(protocol \o SubSeq(normalized, Len(HttpPrefix) + 1, Len(normalized)))
        ELSE IF HasPrefix(normalized, HttpsPrefix)
        THEN AuthBaseTail(protocol \o SubSeq(normalized, Len(HttpsPrefix) + 1, Len(normalized)))
        ELSE IF Contains(normalized, Dot \o domain) \/ HasSuffix(normalized, domain)
        THEN AuthBaseTail(protocol \o normalized)
        ELSE AuthBaseTail(protocol \o normalized \o Dot \o domain)

\* buildAuthBaseURL
buildAuthBaseURL(projectURL, baseDomain, secure) ==
    LET domain == IF baseDomain = <<>> THEN DefaultBaseDomain ELSE baseDomain
        normalized == TrimSpace(projectURL)
        protocol == IF secure THEN HttpsPrefix ELSE HttpPrefix
    IN  IF HasPrefix(normalized, HttpPrefix) \/ HasPrefix(normalized, HttpsPrefix)
        THEN AuthBaseTail(normalized)
        ELSE IF Contains(normalized, Dot \o domain) \/ HasSuffix(normalized, domain)
        THEN AuthBaseTail(protocol \o normalized)
        ELSE AuthBaseTail(protocol \o normalized \o Dot \o domain)

\* the AuthConfig of the README: a full URL, no BaseDomain, Secure left false
DefaultProject ==
    [ProjectURL |-> HttpsPrefix \o <<"proj">> \o Dot \o DefaultBaseDomain,
     BaseDomain |-> <<>>, Secure |-> FALSE]
NotBuilt == <<"?">>

\* ---------------------------------------------------------------- state
VARIABLES
    accessToken,     \* AuthClient.accessToken
    refreshToken,    \* AuthClient.refreshToken
    apiKey,          \* AuthClient.apiKey
    publicKey,       \* AuthClient.publicKey
    autoCheckQuota,  \* StorageClient.autoCheckQuota
    issued,          \* history: the AuthSession the latest successful sign-in
                     \* returned, while no SetSession or ClearSession followed
    handed,          \* history: the tokens the latest SetSession or ClearSession
                     \* stored, while no successful sign-in followed
    pc,              \* per goroutine: idle, await (request in flight), write,
                     \* done (returned; ret is the result the caller holds)
    call,            \* per goroutine: the method it is in and its arguments
    sent,            \* per goroutine: the requests this call has dispatched
    resp,            \* per goroutine: the outcomes this call has received
    ret,             \* per goroutine: what the call returns
    pend,            \* per goroutine: the refresh token still to be stored
    timeout,         \* httpClient.Timeout of each client, in seconds; 0 is
                     \* Go's "no timeout"
    builder,         \* the query builder's accumulated state
    chain,           \* history: the builder calls made so far, in order
    query,           \* the builder's terminal call: its request and result
    bytes,           \* the argument of formatBytes, in base-1024 digits
    formatted,       \* what formatBytes returned
    built,           \* history: the constructor the StorageClient came from
    config,          \* history: the keys of the AuthConfig NewAuthClient was given
    project,         \* history: ProjectURL, BaseDomain and Secure of that AuthConfig
    baseURL          \* AuthClient.baseURL

clientVars == <<accessToken, refreshToken, apiKey, publicKey, autoCheckQuota>>
otherVars == <<timeout, builder, chain, query, bytes, formatted, built, config, project, baseURL>>
vars == <<accessToken, refreshToken, apiKey, publicKey, autoCheckQuota, issued, handed,
          pc, call, sent, resp, ret, pend,
          timeout, builder, chain, query, bytes, formatted, built, config, project, baseURL>>

\* the keys the storage and schema clients were constructed with
StorageKey == "storage_key"
ServiceKey == "service_key"
\* AuthConfig.APIKey and AuthConfig.PublicAPIKey, either may be empty
ConfigAPIKeys == {"", "api_key"}
ConfigPublicAPIKeys == {"", "public_key"}

NoCall ==
    [purpose |-> "", op |-> "none", checkQuota |-> "nil", size |-> 0,
     impl |-> "none", accessToken |-> "", refreshToken |-> "",
     client |-> "none", newPassword |-> FALSE, tokenOverride |-> "",
     prefix |-> <<>>, limit |-> 0]

NoIssue == [session |-> ZeroSession, live |-> FALSE]
NoHanded == [AccessToken |-> "", RefreshToken |-> "", by |-> "none"]

\* mutant of UnifiedKey: the deprecated PublicAPIKey is preferred
UnifiedKeyPublicFirst(configAPIKey, configPublicAPIKey) ==
    IF configPublicAPIKey = "" THEN configAPIKey ELSE configPublicAPIKey

\* NewAuthClient: unifiedKey
UnifiedKey(configAPIKey, configPublicAPIKey) ==
    IF configAPIKey = "" THEN configPublicAPIKey ELSE configAPIKey

\* NewAuthClient: a Timeout of 0 in the AuthConfig becomes 30 seconds
DefaultAuthTimeout == 30
NewAuthClientTimeout(configTimeout) ==
    IF configTimeout = 0 THEN DefaultAuthTimeout ELSE configTimeout

\* NewStorageClient: Timeout 60 seconds
DefaultStorageTimeout == 60

\* NewSchemaClient, both implementations: &http.Client{}, Timeout left zero
SchemaTimeout == 0

\* the timeouts a caller passes: AuthConfig.Timeout and the timeout argument
\* of NewStorageClientWithOptions, in seconds
ConfigTimeouts == {0, 5}

\* the clients as NewAuthClient (Timeout 0), NewStorageClient or
\* NewStorageClientWithOptions (60 seconds) and NewSchemaClient build them
DefaultTimeouts ==
    [auth |-> NewAuthClientTimeout(0), storage |-> DefaultStorageTimeout,
     schema |-> SchemaTimeout]

\* every way of constructing the three clients
Timeouts ==
    {[auth |-> NewAuthClientTimeout(a), storage |-> s, schema |-> SchemaTimeout] :
        a \in ConfigTimeouts, s \in {DefaultStorageTimeout} \cup ConfigTimeouts}

\* a query builder as Table(name) returns it; the optional sort, limit and
\* offset are <<>> when absent and <<v>> when set
NewBuilder ==
    [limit |-> <<>>, projection |-> <<>>, predicates |-> <<>>, sort |-> <<>>,
     offset |-> <<>>]

\* the request of a terminal call of the builder: the table endpoint, the
\* record addressed ("none" for the table), the query parameters and the body
TableRequest(method, id, projection, predicates, sort, limit, offset, body) ==
    [body |-> body, method |-> method, limit |-> limit, projection |-> projection,
     predicates |-> predicates, sort |-> sort, offset |-> offset, id |-> id,
     table |-> "users"]

NoRequest == TableRequest("none", "none", <<>>, <<>>, <<>>, <<>>, <<>>, "none")

\* what a terminal call of the builder returns: the records of a QueryResult,
\* the one record of first() ("nil" when there is none), the error
QueryReturn(rows, record, err) == [err |-> err, rows |-> rows, record |-> record]
NoReturn == QueryReturn(<<>>, "nil", Nil)

\* no terminal call of the builder is under way: the builder accumulates
NoQuery ==
    [op |-> "none", pc |-> "build", id |-> "none", record |-> "none",
     request |-> NoRequest, answer |-> [rows |-> <<>>, ok |-> FALSE],
     result |-> NoReturn]

\* formatBytes has not been called, and has not returned
NoBytes == <<>>
NotFormatted ==
    [form |-> "", whole |-> 0, hundredths |-> 0, unit |-> "", exp |-> 0, div |-> <<>>]

\* mutant of NewStorageClient: the pre-check is off by default
NewStorageClientUnchecked ==
    [autoCheckQuota |-> FALSE, timeout |-> DefaultStorageTimeout,
     built |-> "NewStorageClient"]

\* NewStorageClient: autoCheckQuota true, Timeout 60 seconds
NewStorageClient ==
    [autoCheckQuota |-> TRUE, timeout |-> DefaultStorageTimeout,
     built |-> "NewStorageClient"]

\* NewStorageClientWithOptions: both as the caller gives them
NewStorageClientWithOptions(t, autoCheck) ==
    [autoCheckQuota |-> autoCheck, timeout |-> t, built |-> "NewStorageClientWithOptions"]

\* the storage clients the two constructors build; NewStorageClientWithOptions
\* with 60 seconds and true builds the fields of NewStorageClient and stands
\* with it
StorageClients ==
    {NewStorageClient}
    \cup {c \in {NewStorageClientWithOptions(t, a) :
                    t \in ConfigTimeouts \cup {DefaultStorageTimeout}, a \in BOOLEAN} :
            ~(c.timeout = DefaultStorageTimeout /\ c.autoCheckQuota)}

\* NewAuthClient, NewStorageClient / NewStorageClientWithOptions and
\* NewSchemaClient, with the timeouts to of the three http.Clients; arg is the
\* number formatBytes is about to be called with
ConstructedFrom(to, arg, proj, base) ==
    /\ project = proj
    /\ baseURL = base
    /\ accessToken = ""
    /\ refreshToken = ""
    /\ \E k \in ConfigAPIKeys, pk \in ConfigPublicAPIKeys :
          /\ config = [APIKey |-> k, PublicAPIKey |-> pk]
          /\ apiKey = UnifiedKey(k, pk)
          /\ publicKey = UnifiedKey(k, pk)
    /\ \E c \in StorageClients :
          /\ c.timeout = to.storage
          /\ autoCheckQuota = c.autoCheckQuota
          /\ built = c.built
    /\ timeout = to
    /\ issued = NoIssue
    /\ handed = NoHanded
    /\ pc = [p \in Procs |-> "idle"]
    /\ call = [p \in Procs |-> NoCall]
    /\ sent = [p \in Procs |-> <<>>]
    /\ resp = [p \in Procs |-> <<>>]
    /\ ret = [p \in Procs |-> NoRet]
    /\ pend = [p \in Procs |-> ""]
    /\ builder = NewBuilder
    /\ chain = <<>>
    /\ query = NoQuery
    /\ bytes = arg
    /\ formatted = NotFormatted

\* the clients of the default project
Constructed(to, arg) ==
    ConstructedFrom(to, arg, DefaultProject,
                    buildAuthBaseURL(DefaultProject.ProjectURL, DefaultProject.BaseDomain,
                                     DefaultProject.Secure))

Init == Constructed(DefaultTimeouts, NoBytes)

\* ---------------------------------------------------------------- steps of a call
\* mutant of Callable: the client lets one call at a time past a lock
CallableUnderLock(p) == pc[p] = "idle" /\ \A q \in Procs : pc[q] \in {"idle", "done"}

\* a goroutine can enter a method when it is in none
Callable(p) == pc[p] = "idle"

\* the call enters the method and dispatches its first request
Start(p, c, rq) ==
    /\ Callable(p)
    /\ pc' = [pc EXCEPT ![p] = "await"]
    /\ call' = [call EXCEPT ![p] = c]
    /\ sent' = [sent EXCEPT ![p] = <<rq>>]
    /\ resp' = [resp EXCEPT ![p] = <<>>]
    /\ ret' = [ret EXCEPT ![p] = NoRet]
    /\ pend' = [pend EXCEPT ![p] = ""]
    /\ UNCHANGED <<issued, handed, clientVars, otherVars>>

\* the call returns without any I/O
Local(p, c, r) ==
    /\ Callable(p)
    /\ pc' = [pc EXCEPT ![p] = "done"]
    /\ call' = [call EXCEPT ![p] = c]
    /\ sent' = [sent EXCEPT ![p] = <<>>]
    /\ resp' = [resp EXCEPT ![p] = <<>>]
    /\ ret' = [ret EXCEPT ![p] = r]
    /\ pend' = [pend EXCEPT ![p] = ""]
    /\ UNCHANGED <<issued, handed, clientVars, otherVars>>

\* mutant of Finish: a failed request is sent once more before the call gives up
FinishRetriesOnce(p, o, r) ==
    IF r.err # Nil /\ Len(sent[p]) = Len(resp[p]) + 1 /\ Len(resp[p]) = 0
    THEN /\ sent' = [sent EXCEPT ![p] = Append(@, @[Len(@)])]
         /\ resp' = [resp EXCEPT ![p] = Append(@, o)]
         /\ UNCHANGED <<pc, call, ret, pend, issued, handed, clientVars, otherVars>>
    ELSE /\ pc' = [pc EXCEPT ![p] = "done"]
         /\ resp' = [resp EXCEPT ![p] = Append(@, o)]
         /\ ret' = [ret EXCEPT ![p] = r]
         /\ UNCHANGED <<call, sent, pend, issued, handed, clientVars, otherVars>>

\* the call returns after the outcome o of its request
Finish(p, o, r) ==
    /\ pc' = [pc EXCEPT ![p] = "done"]
    /\ resp' = [resp EXCEPT ![p] = Append(@, o)]
    /\ ret' = [ret EXCEPT ![p] = r]
    /\ UNCHANGED <<call, sent, pend, issued, handed, clientVars, otherVars>>

\* mutant of AuthRequest: the caller's Authorization header does not replace
\* the key's
AuthRequestKeyWins(method, path, header) ==
    Request(method, path,
            IF apiKey # "" THEN apiKey
            ELSE IF publicKey # "" THEN publicKey
            ELSE IF header # "none" THEN header
            ELSE "absent")

\* AuthClient.doRequest: the request it builds (Authorization from apiKey,
\* then publicKey, then overridden by the caller's headers)
AuthRequest(method, path, header) ==
    Request(method, path,
            IF header # "none" THEN header
            ELSE IF apiKey # "" THEN apiKey
            ELSE IF publicKey # "" THEN publicKey
            ELSE "absent")

\* the outcomes the environment can produce for a request
Failures == {TransportFailure(te) : te \in TransportErrs}
Outcomes(okBodies, errBodies) ==
    Failures
    \cup {Http(s, b) : s \in {x \in Statuses : x >= 200 /\ x < 300},
                       b \in okBodies \cup {Unreadable, Garbage}}
    \cup {Http(s, b) : s \in {x \in Statuses : x < 200 \/ x >= 300}, b \in errBodies}


\* ---------------------------------------------------------------- AuthClient
AuthCall(op) == [NoCall EXCEPT !.client = "auth", !.op = op]

SignUp(p) == Start(p, AuthCall("SignUp"), AuthRequest("POST", "/signup", "none"))

SignIn(p) == Start(p, AuthCall("SignIn"), AuthRequest("POST", "/login", "none"))

ExchangeOAuthCallback(p) ==
    Start(p, AuthCall("ExchangeOAuthCallback"),
          AuthRequest("POST", "/oauth/provider/callback", "none"))

VerifyOTPPurposes == {"login", "signup", "password_reset"}
SendMagicLinkPurposes == {"login", "signup", "email_verification"}

VerifyOTP(p) ==
    \E purpose \in Purposes, newPassword \in BOOLEAN :
        LET c == [AuthCall("VerifyOTP") EXCEPT !.purpose = purpose,
                                               !.newPassword = newPassword] IN
        IF purpose \notin VerifyOTPPurposes
        THEN Local(p, c, Ret(ErrorString("purpose must be 'login', 'signup', or 'password_reset'"),
                             ZeroSession, FALSE))
        ELSE IF purpose = "password_reset" /\ ~newPassword
        THEN Local(p, c, Ret(ErrorString("newPassword is required for password_reset purpose"),
                             ZeroSession, FALSE))
        ELSE Start(p, c, AuthRequest("POST", "/otp/verify", "none"))

SendOTP(p) ==
    \E purpose \in Purposes :
        LET c == [AuthCall("SendOTP") EXCEPT !.purpose = purpose] IN
        IF purpose \notin VerifyOTPPurposes
        THEN Local(p, c, Ret(ErrorString("purpose must be 'login', 'signup', or 'password_reset'"),
                             ZeroSession, FALSE))
        ELSE Start(p, c, AuthRequest("POST", "/otp/send", "none"))

\* mutant of SendMagicLink: the purposes of SendOTP are the ones accepted
SendMagicLinkOTPPurposes(p) ==
    \E purpose \in Purposes :
        LET c == [AuthCall("SendMagicLink") EXCEPT !.purpose = purpose] IN
        IF purpose \notin VerifyOTPPurposes
        THEN Local(p, c, Ret(ErrorString("purpose must be 'login', 'signup', or 'email_verification'"),
                             ZeroSession, FALSE))
        ELSE Start(p, c, AuthRequest("POST", "/magic-link/send", "none"))

SendMagicLink(p) ==
    \E purpose \in Purposes :
        LET c == [AuthCall("SendMagicLink") EXCEPT !.purpose = purpose] IN
        IF purpose \notin SendMagicLinkPurposes
        THEN Local(p, c, Ret(ErrorString("purpose must be 'login', 'signup', or 'email_verification'"),
                             ZeroSession, FALSE))
        ELSE Start(p, c, AuthRequest("POST", "/magic-link/send", "none"))

\* mutant of GetUser: the stored token is preferred to the override
GetUserStoredFirst(p) ==
    \E tokenOverride \in {"", "a2", "override"} :
        LET c == [AuthCall("GetUser") EXCEPT !.tokenOverride = tokenOverride]
            token == IF accessToken # "" THEN accessToken ELSE tokenOverride
        IN  IF token = ""
            THEN Local(p, c, Ret(Err("WOWSQLError", "none", 0,
                                     "access token is required to fetch user profile", 0, 0),
                                 ZeroSession, FALSE))
            ELSE Start(p, c, AuthRequest("GET", "/me", token))

GetUser(p) ==
    \E tokenOverride \in {"", "a2", "override"} :
        LET c == [AuthCall("GetUser") EXCEPT !.tokenOverride = tokenOverride]
            token == IF tokenOverride # "" THEN tokenOverride ELSE accessToken
        IN  IF token = ""
            THEN Local(p, c, Ret(Err("WOWSQLError", "none", 0,
                                     "access token is required to fetch user profile", 0, 0),
                                 ZeroSession, FALSE))
            ELSE Start(p, c, AuthRequest("GET", "/me", token))

GetOAuthAuthorizationURL(p) ==
    Start(p, AuthCall("GetOAuthAuthorizationURL"), AuthRequest("GET", "/oauth/provider", "none"))

ForgotPassword(p) ==
    Start(p, AuthCall("ForgotPassword"), AuthRequest("POST", "/forgot-password", "none"))

ResetPassword(p) ==
    Start(p, AuthCall("ResetPassword"), AuthRequest("POST", "/reset-password", "none"))

VerifyEmail(p) ==
    Start(p, AuthCall("VerifyEmail"), AuthRequest("POST", "/verify-email", "none"))

ResendVerification(p) ==
    Start(p, AuthCall("ResendVerification"), AuthRequest("POST", "/resend-verification", "none"))

\* mutant of GetSessionResult: the refresh token is left out
GetSessionResultNoRefresh(access, refresh) == AuthSession(access, "", "bearer", 0)

\* GetSession: the stored tokens, TokenType "bearer", ExpiresIn left zero
GetSessionResult(access, refresh) == AuthSession(access, refresh, "bearer", 0)

GetSession(p) ==
    Local(p, AuthCall("GetSession"), Ret(Nil, GetSessionResult(accessToken, refreshToken), FALSE))

\* the first of the two field writes of SetSession, ClearSession and
\* persistSession; the second is WriteRefresh
WriteAccess(p, a, r) ==
    /\ accessToken' = a
    /\ pend' = [pend EXCEPT ![p] = r]
    /\ pc' = [pc EXCEPT ![p] = "write"]
    /\ UNCHANGED <<refreshToken, apiKey, publicKey, autoCheckQuota, otherVars>>

\* a method without I/O that stores two tokens
Store(p, c, a, r) ==
    /\ Callable(p)
    /\ WriteAccess(p, a, r)
    /\ call' = [call EXCEPT ![p] = c]
    /\ sent' = [sent EXCEPT ![p] = <<>>]
    /\ resp' = [resp EXCEPT ![p] = <<>>]
    /\ ret' = [ret EXCEPT ![p] = NoRet]
    /\ issued' = NoIssue
    /\ handed' = [AccessToken |-> a, RefreshToken |-> r, by |-> c.op]

SetSession(p) ==
    \E a \in AccessTokens, r \in RefreshTokens :
        Store(p, [AuthCall("SetSession") EXCEPT !.accessToken = a, !.refreshToken = r], a, r)

\* mutant of ClearSession: only the access token is cleared
ClearSessionKeepsRefresh(p) == Store(p, AuthCall("ClearSession"), "", refreshToken)

\* ClearSession: c.accessToken = "", c.refreshToken = ""
ClearSession(p) == Store(p, AuthCall("ClearSession"), "", "")

\* mutant of persistSession: the refresh token is not replaced
persistSessionKeepsRefresh(p, session) == WriteAccess(p, session.AccessToken, refreshToken)

\* persistSession: c.accessToken = session.AccessToken, with
\* c.refreshToken = session.RefreshToken still to come
persistSession(p, session) == WriteAccess(p, session.AccessToken, session.RefreshToken)

\* c.refreshToken = ..., after which the method returns
WriteRefresh(p) ==
    /\ pc[p] = "write"
    /\ refreshToken' = pend[p]
    /\ pc' = [pc EXCEPT ![p] = "done"]
    /\ UNCHANGED <<accessToken, apiKey, publicKey, autoCheckQuota, issued, handed,
                   call, sent, resp, ret, pend, otherVars>>

\* the bodies a 2xx answer to an auth request may carry
AuthBodies(c) ==
    IF c.op \in SessionOps THEN SessionBodies ELSE {EmptyObject}

\* the round trip of an auth call ends: doRequest returns and the method
\* decodes, persists and returns
AuthReply(p) ==
    /\ pc[p] = "await"
    /\ call[p].client = "auth"
    /\ \E o \in Outcomes(AuthBodies(call[p]), ErrorBodies) :
        LET r == AuthResult(call[p], o) IN
        IF r.persist
        THEN /\ persistSession(p, r.session)
             /\ resp' = [resp EXCEPT ![p] = Append(@, o)]
             /\ ret' = [ret EXCEPT ![p] = Ret(r.err, r.session, FALSE)]
             /\ issued' = [session |-> r.session, live |-> TRUE]
             /\ handed' = NoHanded
             /\ UNCHANGED <<call, sent>>
        ELSE Finish(p, o, Ret(r.err, r.session, FALSE))


\* ---------------------------------------------------------------- StorageClient
StorageCall(op) == [NoCall EXCEPT !.client = "storage", !.op = op]

\* StorageClient.doRequest and Upload: the request they build
StorageRequest(method, path) == Request(method, path, StorageKey)

QuotaPath == "/api/v1/storage/quota"
UploadPath == "/api/v1/storage/upload"

CheckQuotaArgs == {"nil", "true", "false"}

\* Upload up to its first request: the quota fetch when the pre-check is on,
\* the multipart upload otherwise
UploadStart(p, c) ==
    IF ShouldCheck(autoCheckQuota, c.checkQuota)
    THEN Start(p, c, StorageRequest("GET", QuotaPath))
    ELSE Start(p, c, StorageRequest("POST", UploadPath))

Upload(p) ==
    \E size \in Sizes, checkQuota \in CheckQuotaArgs :
        UploadStart(p, [StorageCall("Upload") EXCEPT !.size = size, !.checkQuota = checkQuota])

\* UploadFromPath: os.ReadFile, then the call is Upload's
UploadFromPath(p) ==
    \E fileRead \in BOOLEAN, size \in Sizes, checkQuota \in CheckQuotaArgs :
        IF ~fileRead
        THEN Local(p, [StorageCall("UploadFromPath") EXCEPT !.checkQuota = checkQuota],
                   Ret(WrapError("failed to read file", "os"), ZeroSession, FALSE))
        ELSE UploadStart(p, [StorageCall("Upload") EXCEPT !.size = size,
                                                          !.checkQuota = checkQuota])

UploadOps == {"Upload"}

\* the request in flight
InFlight(p) == sent[p][Len(sent[p])]

\* Upload: GetQuota returns; the pre-check fails the call or lets the
\* multipart request go out
UploadQuotaReply(p) ==
    /\ pc[p] = "await"
    /\ call[p].op \in UploadOps
    /\ InFlight(p).path = QuotaPath
    /\ \E o \in Outcomes(QuotaBodies, ErrorBodies) :
        LET quota == GetQuotaResult(o) IN
        IF quota.err # Nil
        THEN Finish(p, o, Ret(quota.err, ZeroSession, FALSE))
        ELSE IF QuotaInsufficient(quota.available, call[p].size)
        THEN Finish(p, o, Ret(LimitExceeded(call[p].size, quota.available), ZeroSession, FALSE))
        ELSE /\ sent' = [sent EXCEPT ![p] = Append(@, StorageRequest("POST", UploadPath))]
             /\ resp' = [resp EXCEPT ![p] = Append(@, o)]
             /\ UNCHANGED <<pc, call, ret, pend, issued, handed, clientVars, otherVars>>

\* Upload: the multipart round trip ends
UploadReply(p) ==
    /\ pc[p] = "await"
    /\ call[p].op \in UploadOps
    /\ InFlight(p).path = UploadPath
    /\ \E o \in Outcomes({EmptyObject}, ErrorBodies) :
        Finish(p, o, Ret(UploadSendResult(o), ZeroSession, FALSE))

GetQuota(p) == Start(p, StorageCall("GetQuota"), StorageRequest("GET", QuotaPath))

GetFileInfo(p) ==
    Start(p, StorageCall("GetFileInfo"), StorageRequest("GET", "/api/v1/storage/info"))

FileExists(p) ==
    Start(p, StorageCall("FileExists"), StorageRequest("GET", "/api/v1/storage/info"))

\* Download, ListFiles, DeleteFile, DeleteFiles, GetFileUrl, GetPresignedUrl,
\* GetStorageInfo, ProvisionStorage, GetAvailableRegions
StorageOp(p) ==
    \E op \in DOMAIN StorageRoutes :
        Start(p, StorageCall(op), StorageRequest(StorageRoutes[op].method, StorageRoutes[op].path))

\* the round trip of a storage call other than Upload ends
StorageReply(p) ==
    /\ pc[p] = "await"
    /\ call[p].client = "storage"
    /\ call[p].op \notin UploadOps
    /\ \E o \in Outcomes(IF call[p].op = "GetQuota" THEN QuotaBodies ELSE {EmptyObject},
                         ErrorBodies) :
        Finish(p, o, StorageResult(call[p], o))

\* ---------------------------------------------------------------- SchemaClient
SchemaCall(impl, op) == [NoCall EXCEPT !.client = "schema", !.op = op, !.impl = impl]

SchemaRequest(op) == Request(SchemaRoute(op).method, SchemaRoute(op).path, ServiceKey)

CreateTable(p) == \E impl \in SchemaImpls :
    Start(p, SchemaCall(impl, "CreateTable"), SchemaRequest("CreateTable"))

AlterTable(p) == \E impl \in SchemaImpls :
    Start(p, SchemaCall(impl, "AlterTable"), SchemaRequest("AlterTable"))

DropTable(p) == \E impl \in SchemaImpls :
    Start(p, SchemaCall(impl, "DropTable"), SchemaRequest("DropTable"))

ExecuteSQL(p) == \E impl \in SchemaImpls :
    Start(p, SchemaCall(impl, "ExecuteSQL"), SchemaRequest("ExecuteSQL"))

\* the round trip of a schema call ends
SchemaReply(p) ==
    /\ pc[p] = "await"
    /\ call[p].client = "schema"
    /\ \E o \in Outcomes({EmptyObject, DetailObject}, ErrorBodies \cup {DetailObject}) :
        Finish(p, o, Ret(SchemaResult(call[p].impl, call[p].op, o), ZeroSession, FALSE))

\* ---------------------------------------------------------------- specifications
\* the caller has consumed the result; the per-call values are discarded
Return(p) ==
    /\ pc[p] = "done"
    /\ pc' = [pc EXCEPT ![p] = "idle"]
    /\ call' = [call EXCEPT ![p] = NoCall]
    /\ sent' = [sent EXCEPT ![p] = <<>>]
    /\ resp' = [resp EXCEPT ![p] = <<>>]
    /\ ret' = [ret EXCEPT ![p] = NoRet]
    /\ pend' = [pend EXCEPT ![p] = ""]
    /\ UNCHANGED <<issued, handed, clientVars, otherVars>>

AuthStep(p) ==
    \/ SignUp(p)
    \/ SignIn(p)
    \/ ExchangeOAuthCallback(p)
    \/ VerifyOTP(p)
    \/ SendOTP(p)
    \/ SendMagicLink(p)
    \/ GetUser(p)
    \/ GetOAuthAuthorizationURL(p)
    \/ ForgotPassword(p)
    \/ ResetPassword(p)
    \/ VerifyEmail(p)
    \/ ResendVerification(p)
    \/ GetSession(p)
    \/ SetSession(p)
    \/ ClearSession(p)
    \/ AuthReply(p)
    \/ WriteRefresh(p)

StorageStep(p) ==
    \/ Upload(p)
    \/ UploadFromPath(p)
    \/ UploadQuotaReply(p)
    \/ UploadReply(p)
    \/ GetQuota(p)
    \/ GetFileInfo(p)
    \/ FileExists(p)
    \/ StorageOp(p)
    \/ StorageReply(p)

SchemaStep(p) ==
    \/ CreateTable(p)
    \/ AlterTable(p)
    \/ DropTable(p)
    \/ ExecuteSQL(p)
    \/ SchemaReply(p)

\* One goroutine uses the clients, one call after the other.
Main == CHOOSE p \in Procs : \A q \in Procs : p <= q

Next == AuthStep(Main) \/ StorageStep(Main) \/ SchemaStep(Main) \/ Return(Main)

Spec == Init /\ [][Next]_vars


\* Several goroutines share the clients.  The calls are those that store a
\* session; the server answers a sign-in with tokens or the transport fails.
ConcOutcomes ==
    {Http(200, b) : b \in {x \in SessionBodies : x.access_token # "" /\ x.token_type = "bearer"}}
    \cup {TransportFailure("timeout")}

ConcInit == Init /\ apiKey = "api_key" /\ autoCheckQuota

ConcStep(p) ==
    \/ SignUp(p)
    \/ SignIn(p)
    \/ ExchangeOAuthCallback(p)
    \/ VerifyOTP(p)
    \/ (AuthReply(p) /\ resp'[p][Len(resp'[p])] \in ConcOutcomes)
    \/ WriteRefresh(p)
    \/ Return(p)

ConcNext == \E p \in Procs : ConcStep(p)

ConcSpec == ConcInit /\ [][ConcNext]_vars


\* ---------------------------------------------------------------- query builder
\* The fluent query builder of the database client (Table(name).Select(...)
\* ... Execute()), as section 4.1 of the specification describes it.
MaxChain == 3

Projections == {<<"*">>, <<"id", "name">>}
Predicate(column, operator, value) ==
    [column |-> column, operator |-> operator, value |-> value]
EqArgs == {Predicate("status", "eq", "active"), Predicate("age", "eq", "18")}
Sorts == {[column |-> "created_at", direction |-> "desc"],
          [column |-> "name", direction |-> "asc"]}
Limits == {10, 20}
Offsets == {0, 20}
RecordIDs == {"1", "2"}
\* the result sets the server answers a read with
ResultSets == {<<>>, <<"row1">>, <<"row2", "row1">>}

\* mutant of Select: the columns are added to the projection
SelectMerges(b, columns) == [b EXCEPT !.projection = @ \o columns]

\* select(columns...): sets the projection, replacing the prior one
Select(b, columns) == [b EXCEPT !.projection = columns]

\* eq(column, value): appends one predicate
Eq(b, predicate) == [b EXCEPT !.predicates = Append(@, predicate)]

\* orderBy(column, direction): sets the sort, replacing the prior one
OrderBy(b, sort) == [b EXCEPT !.sort = <<sort>>]

\* limit(n), offset(n): set the pagination
Limit(b, n) == [b EXCEPT !.limit = <<n>>]
Offset(b, n) == [b EXCEPT !.offset = <<n>>]

\* the read request the accumulated state serializes to
ReadRequest(b) ==
    TableRequest("GET", "none", b.projection, b.predicates, b.sort, b.limit, b.offset, "none")

\* execute(): the read of the accumulated query
ExecuteRequest(b) == ReadRequest(b)

\* mutant of FirstRequest: the accumulated limit is kept
FirstRequestKeepsLimit(b) == ReadRequest(b)

\* first(): execute() with limit forced to 1
FirstRequest(b) == ReadRequest(Limit(b, 1))

\* mutant of UpdateByIDRequest: the accumulated predicates go along
UpdateByIDRequestFiltered(b, id, record) ==
    TableRequest("PATCH", id, <<>>, b.predicates, <<>>, <<>>, <<>>, record)

\* updateByID(id, record), deleteByID(id): the record addressed by its
\* primary key, nothing of the accumulated state
UpdateByIDRequest(b, id, record) ==
    TableRequest("PATCH", id, <<>>, <<>>, <<>>, <<>>, <<>>, record)
DeleteByIDRequest(b, id) ==
    TableRequest("DELETE", id, <<>>, <<>>, <<>>, <<>>, <<>>, "none")

\* the fetch error of a terminal call
FetchError == Err("WOWSQLError", "none", 0, "fetch failed", 0, 0)

\* what the server (or the transport) answers a terminal call with
QueryAnswer(ok, rows) == [rows |-> rows, ok |-> ok]
ReadAnswers == {QueryAnswer(TRUE, rows) : rows \in ResultSets} \cup {QueryAnswer(FALSE, <<>>)}
WriteAnswers == {QueryAnswer(TRUE, <<>>), QueryAnswer(FALSE, <<>>)}

\* execute(): the QueryResult or the fetch error
ExecuteResult(answer) ==
    IF ~answer.ok THEN QueryReturn(<<>>, "nil", FetchError)
    ELSE QueryReturn(answer.rows, "nil", Nil)

\* mutant of FirstResult: an empty result set is reported as an error
FirstResultEmptyIsError(answer) ==
    IF ~answer.ok THEN QueryReturn(<<>>, "nil", FetchError)
    ELSE IF Len(answer.rows) = 0
    THEN QueryReturn(<<>>, "nil", Err("NotFoundError", "none", 0, "no rows", 0, 0))
    ELSE QueryReturn(<<>>, answer.rows[1], Nil)

\* first(): the single record, or nil without an error when there is none
FirstResult(answer) ==
    IF ~answer.ok THEN QueryReturn(<<>>, "nil", FetchError)
    ELSE IF Len(answer.rows) = 0 THEN QueryReturn(<<>>, "nil", Nil)
    ELSE QueryReturn(<<>>, answer.rows[1], Nil)

\* updateByID, deleteByID: the error, if any
WriteResult(answer) ==
    IF ~answer.ok THEN QueryReturn(<<>>, "nil", FetchError)
    ELSE QueryReturn(<<>>, "nil", Nil)

queryFrame == <<clientVars, issued, handed, pc, call, sent, resp, ret, pend, timeout,
                bytes, formatted, built, config, project, baseURL>>

\* a builder call: local accumulation, no I/O
Accumulate(kind, arg, b) ==
    /\ query.pc = "build"
    /\ Len(chain) < MaxChain
    /\ builder' = b
    /\ chain' = Append(chain, [kind |-> kind, arg |-> arg])
    /\ UNCHANGED <<query, queryFrame>>

SelectCall == \E columns \in Projections : Accumulate("select", columns, Select(builder, columns))
EqCall == \E predicate \in EqArgs : Accumulate("eq", predicate, Eq(builder, predicate))
OrderByCall == \E sort \in Sorts : Accumulate("orderBy", <<sort>>, OrderBy(builder, sort))
LimitCall == \E n \in Limits : Accumulate("limit", <<n>>, Limit(builder, n))
OffsetCall == \E n \in Offsets : Accumulate("offset", <<n>>, Offset(builder, n))

\* a terminal call dispatches its one request
Dispatch(op, id, record, request) ==
    /\ query.pc = "build"
    /\ query' = [NoQuery EXCEPT !.pc = "await", !.op = op, !.id = id,
                                !.record = record, !.request = request]
    /\ UNCHANGED <<builder, chain, queryFrame>>

ExecuteCall == Dispatch("Execute", "none", "none", ExecuteRequest(builder))
FirstCall == Dispatch("First", "none", "none", FirstRequest(builder))
UpdateByIDCall ==
    \E id \in RecordIDs :
        Dispatch("UpdateByID", id, "record", UpdateByIDRequest(builder, id, "record"))
DeleteByIDCall ==
    \E id \in RecordIDs : Dispatch("DeleteByID", id, "none", DeleteByIDRequest(builder, id))

\* the round trip of the terminal call ends and the call returns
QueryReply ==
    /\ query.pc = "await"
    /\ \E answer \in IF query.op \in {"Execute", "First"} THEN ReadAnswers ELSE WriteAnswers :
        query' = [query EXCEPT !.pc = "done", !.answer = answer,
                               !.result = IF query.op = "Execute" THEN ExecuteResult(answer)
                                          ELSE IF query.op = "First" THEN FirstResult(answer)
                                          ELSE WriteResult(answer)]
    /\ UNCHANGED <<builder, chain, queryFrame>>

\* Table(name): a fresh builder
Table ==
    /\ query.pc \in {"build", "done"}
    /\ builder' = NewBuilder
    /\ chain' = <<>>
    /\ query' = NoQuery
    /\ UNCHANGED queryFrame

QueryInit == Init /\ apiKey = "api_key" /\ autoCheckQuota

QueryNext ==
    \/ SelectCall
    \/ EqCall
    \/ OrderByCall
    \/ LimitCall
    \/ OffsetCall
    \/ ExecuteCall
    \/ FirstCall
    \/ UpdateByIDCall
    \/ DeleteByIDCall
    \/ QueryReply
    \/ Table

QuerySpec == QueryInit /\ [][QueryNext]_vars

\* ---------------------------------------------------------------- formatBytes
\* An int64 byte count is written in base 1024, least significant digit
\* first: seven digits, the last at most 7 (2^63 = 8 * 1024^6).
unit == 1024

\* the inputs: every digit is 0, 1, half a unit or the largest digit
Int64s ==
    {<<a, b, c, d, e, f, g>> :
        a \in {0, 1, 512, 1023}, b \in {0, 1, 512, 1023}, c \in {0, 1, 512, 1023},
        d \in {0, 1, 512, 1023}, e \in {0, 1, 512, 1023}, f \in {0, 1, 512, 1023},
        g \in {0, 1, 7}}

\* "KMGTPE"
UnitLetters == <<"K", "M", "G", "T", "P", "E">>

\* n < unit
LessThanUnit(n) == \A i \in 2..Len(n) : n[i] = 0
\* n / unit, n * unit
DivUnit(n) == Tail(n) \o <<0>>
MulUnit(n) == <<0>> \o SubSeq(n, 1, Len(n) - 1)
\* int64(unit)
UnitValue == <<0, 1, 0, 0, 0, 0, 0>>

\* mutant of FormatLoop: the loop goes on while n > unit
RECURSIVE FormatLoopStrict(_, _, _)
FormatLoopStrict(n, div, exp) ==
    IF ~LessThanUnit(n) /\ n # UnitValue
    THEN FormatLoopStrict(DivUnit(n), MulUnit(div), exp + 1)
    ELSE [exp |-> exp, div |-> div]

\* for n := bytes / unit; n >= unit; n /= unit { div *= unit; exp++ }
RECURSIVE FormatLoop(_, _, _)
FormatLoop(n, div, exp) ==
    IF ~LessThanUnit(n)
    THEN FormatLoop(DivUnit(n), MulUnit(div), exp + 1)
    ELSE [exp |-> exp, div |-> div]

\* "%.2f" of float64(bytes)/float64(div) for div = unit^(exp+1): the whole
\* part and the hundredths, rounded to nearest, a tie to even.  The quotient
\* is taken from the digits of bytes down to the second one below the unit;
\* the digits further down weigh less than 10^-6 and only break a tie.
TwoDecimals(n, exp) ==
    LET k == exp + 2
        digit(i) == IF i >= 1 /\ i <= Len(n) THEN n[i] ELSE 0
        whole == digit(k) + unit * digit(k + 1)
        num == (digit(k - 1) * unit + digit(k - 2)) * 100
        den == unit * unit
        q == num \div den
        r == num % den
        sticky == \E i \in 1..(k - 3) : n[i] # 0
        up == 2 * r > den \/ (2 * r = den /\ (sticky \/ q % 2 = 1))
        h == IF up THEN q + 1 ELSE q
    IN  IF h = 100 THEN [whole |-> whole + 1, hundredths |-> 0]
        ELSE [whole |-> whole, hundredths |-> h]

\* formatBytes: the text, as its format, numbers and unit letter, with the
\* locals div and exp it was computed from; indexing "KMGTPE" past its end
\* panics
formatBytes(n) ==
    IF LessThanUnit(n)
    THEN [form |-> "%d B", whole |-> n[1], hundredths |-> 0, unit |-> "B",
          exp |-> 0, div |-> <<>>]
    ELSE LET l == FormatLoop(DivUnit(n), UnitValue, 0)
             t == TwoDecimals(n, l.exp)
         IN  [form |-> "%.2f %cB", whole |-> t.whole, hundredths |-> t.hundredths,
              unit |-> IF l.exp + 1 \in DOMAIN UnitLetters THEN UnitLetters[l.exp + 1]
                       ELSE "panic",
              exp |-> l.exp, div |-> l.div]

\* a caller formats a byte count
FormatInit ==
    /\ \E n \in Int64s : Constructed(DefaultTimeouts, n)
    /\ apiKey = "api_key"
    /\ autoCheckQuota

FormatBytes ==
    /\ formatted = NotFormatted
    /\ formatted' = formatBytes(bytes)
    /\ UNCHANGED <<clientVars, issued, handed, pc, call, sent, resp, ret, pend, timeout,
                   builder, chain, query, bytes, built, config, project, baseURL>>

FormatNext == FormatBytes

FormatSpec == FormatInit /\ [][FormatNext]_vars

\* ---------------------------------------------------------------- ListFiles
\* fmt.Sprintf("%d", n): the decimal digits, with a sign for a negative n
Digits == <<"0", "1", "2", "3", "4", "5", "6", "7", "8", "9">>
RECURSIVE Decimal(_)
Decimal(n) ==
    IF n < 0 THEN <<"-">> \o Decimal(0 - n)
    ELSE IF n < 10 THEN <<Digits[n + 1]>>
    ELSE Decimal(n \div 10) \o <<Digits[(n % 10) + 1]>>

ListPath == <<"/api/v1/storage/list">>

\* mutant of listFilesURL: a limit of zero is sent too
listFilesURLSendsZero(prefix, limit) ==
    IF prefix # <<>> \/ limit >= 0
    THEN ListPath \o <<"?">>
         \o (IF prefix # <<>> THEN <<"prefix=">> \o prefix ELSE <<>>)
         \o (IF limit >= 0
             THEN (IF prefix # <<>> THEN <<"&">> ELSE <<>>) \o <<"limit=">> \o Decimal(limit)
             ELSE <<>>)
    ELSE ListPath

\* ListFiles: the url it hands to doRequest
listFilesURL(prefix, limit) ==
    IF prefix # <<>> \/ limit > 0
    THEN ListPath \o <<"?">>
         \o (IF prefix # <<>> THEN <<"prefix=">> \o prefix ELSE <<>>)
         \o (IF limit > 0
             THEN (IF prefix # <<>> THEN <<"&">> ELSE <<>>) \o <<"limit=">> \o Decimal(limit)
             ELSE <<>>)
    ELSE ListPath

\* the arguments a caller lists with
ListPrefixes == {<<>>, <<"uploads">>, <<"uploads", "/">>, <<"a", "&", "b">>, <<" ">>, <<"?">>}
ListLimits == (0 - 3)..12 \cup {99, 100, 1000}

ListFiles(p) ==
    \E prefix \in ListPrefixes, limit \in ListLimits :
        Start(p, [StorageCall("ListFiles") EXCEPT !.prefix = prefix, !.limit = limit],
              StorageRequest("GET", listFilesURL(prefix, limit)))

ListInit ==
    /\ Constructed(DefaultTimeouts, NoBytes)
    /\ apiKey = "api_key"
    /\ autoCheckQuota

ListNext == ListFiles(Main) \/ StorageReply(Main) \/ Return(Main)

ListSpec == ListInit /\ [][ListNext]_vars

\* ---------------------------------------------------------------- buildAuthBaseURL
\* the project URLs a caller configures: with or without scheme, a slug or a
\* host, with or without a path, padded with blanks or not
UrlSchemes == {<<>>, HttpPrefix, HttpsPrefix}
UrlHosts ==
    {<<"proj">>, <<"proj">> \o Dot \o DefaultBaseDomain, <<"proj", ".", "example", ".", "org">>,
     DefaultBaseDomain}
UrlPaths ==
    {<<>>, Slash, ApiSuffix, ApiSuffix \o Slash, Slash \o Slash, <<"/", "v1">>,
     ApiSuffix \o ApiSuffix}
Pads == {<<>>, Space}
BaseDomains == {<<>>, <<"example", ".", "org">>}
ProjectURLs ==
    {l \o s \o h \o q \o r : l \in Pads, s \in UrlSchemes, h \in UrlHosts, q \in UrlPaths, r \in Pads}
Projects == [ProjectURL : ProjectURLs, BaseDomain : BaseDomains, Secure : BOOLEAN]

\* NewAuthClient is about to run on an AuthConfig
URLInit ==
    /\ \E proj \in Projects : ConstructedFrom(DefaultTimeouts, NoBytes, proj, NotBuilt)
    /\ autoCheckQuota

\* NewAuthClient: base := buildAuthBaseURL(config.ProjectURL, config.BaseDomain,
\* config.Secure)
NewAuthClientBase ==
    /\ baseURL = NotBuilt
    /\ baseURL' = buildAuthBaseURL(project.ProjectURL, project.BaseDomain, project.Secure)
    /\ UNCHANGED <<clientVars, issued, handed, pc, call, sent, resp, ret, pend, timeout,
                   builder, chain, query, bytes, formatted, built, config, project>>

URLNext == NewAuthClientBase

URLSpec == URLInit /\ [][URLNext]_vars

\* The server accepts every request and never answers.  A call in flight
\* ends only when http.Client's timer fires, which a Timeout of zero never
\* starts; the clients are built in every way the constructors allow.
SilentInit ==
    /\ \E to \in Timeouts : Constructed(to, NoBytes)
    /\ apiKey = "api_key"
    /\ autoCheckQuota

\* http.Client.Do gives up after Timeout: the request of p fails with the
\* timeout error and the method handles it as any transport failure
TimedOut(p) ==
    /\ pc[p] = "await"
    /\ timeout[call[p].client] > 0
    /\ \/ AuthReply(p)
       \/ UploadQuotaReply(p)
       \/ UploadReply(p)
       \/ StorageReply(p)
       \/ SchemaReply(p)
    /\ resp'[p][Len(resp'[p])] = TransportFailure("timeout")

SilentStep(p) ==
    \/ SignUp(p)
    \/ SignIn(p)
    \/ ExchangeOAuthCallback(p)
    \/ VerifyOTP(p)
    \/ SendOTP(p)
    \/ SendMagicLink(p)
    \/ GetUser(p)
    \/ GetOAuthAuthorizationURL(p)
    \/ ForgotPassword(p)
    \/ ResetPassword(p)
    \/ VerifyEmail(p)
    \/ ResendVerification(p)
    \/ Upload(p)
    \/ UploadFromPath(p)
    \/ GetQuota(p)
    \/ GetFileInfo(p)
    \/ FileExists(p)
    \/ StorageOp(p)
    \/ CreateTable(p)
    \/ AlterTable(p)
    \/ DropTable(p)
    \/ ExecuteSQL(p)
    \/ TimedOut(p)
    \/ Return(p)

SilentNext == SilentStep(Main)

SilentSpec == SilentInit /\ [][SilentNext]_vars

\* Two goroutines call Upload on one StorageClient whose pre-check is on.
\* The server answers a quota request with a report, or the transport fails;
\* it answers an upload with 200 or, being the authority on space, with 500.
Uploaders == {p \in Procs : p <= 2}

RaceQuotaOutcomes == {Http(200, b) : b \in QuotaBodies} \cup {TransportFailure("timeout")}
RaceUploadOutcomes == {Http(200, EmptyObject), Http(500, EmptyObject)}

RaceInit == Init /\ apiKey = "api_key" /\ autoCheckQuota

RaceStep(p) ==
    \/ Upload(p)
    \/ (UploadQuotaReply(p) /\ resp'[p][Len(resp'[p])] \in RaceQuotaOutcomes)
    \/ (UploadReply(p) /\ resp'[p][Len(resp'[p])] \in RaceUploadOutcomes)
    \/ Return(p)

RaceNext == \E p \in Uploaders : RaceStep(p)

RaceSpec == RaceInit /\ [][RaceNext]_vars

\* ================================================================ claims
Last(q) == q[Len(q)]

\* the pre-check of an Upload is on: explicit true, or no override and the
\* client's setting
PreCheckOn(p) ==
    call[p].checkQuota = "true" \/ (call[p].checkQuota = "nil" /\ autoCheckQuota)

\* the first answer of the call is a successful quota report of n bytes
QuotaReported(p, n) ==
    /\ Len(resp[p]) >= 1
    /\ resp[p][1].kind = "http"
    /\ resp[p][1].status >= 200 /\ resp[p][1].status < 300
    /\ resp[p][1].body.valid
    /\ resp[p][1].body.storage_available_bytes = n

NoUploadSent(p) == \A i \in 1..Len(sent[p]) : sent[p][i].path # UploadPath

\* C1: Upload with the pre-check on, the quota fetch reporting N available
\* bytes and a payload larger than N: the call returns a
\* StorageLimitExceededError with RequiredBytes = payload size and
\* AvailableBytes = N, and no request went to the upload endpoint.
C1_PreCheckRejects ==
    \A p \in Procs : \A n \in Sizes :
        (call[p].op = "Upload" /\ PreCheckOn(p) /\ QuotaReported(p, n) /\ call[p].size > n)
        => /\ pc[p] = "done"
           /\ ret[p].err.kind = "StorageLimitExceededError"
           /\ ret[p].err.required = call[p].size
           /\ ret[p].err.available = n
           /\ NoUploadSent(p)

C1_Witness ==
    \E p \in Procs : \E n \in Sizes :
        /\ call[p].op = "Upload" /\ PreCheckOn(p) /\ QuotaReported(p, n)
        /\ call[p].size = n + 1
        /\ pc[p] = "done"
        /\ ret[p].err.kind = "StorageLimitExceededError"

\* C2: Upload with the explicit override checkQuota = false dispatches the
\* upload request and never a quota request, whatever the payload size and
\* whatever the client's autoCheckQuota.
C2_OverrideFalseSkipsQuota ==
    \A p \in Procs :
        (call[p].op = "Upload" /\ call[p].checkQuota = "false" /\ pc[p] \in {"await", "done"})
        => /\ Len(sent[p]) = 1
           /\ sent[p][1].path = UploadPath
           /\ sent[p][1].method = "POST"

C2_Witness ==
    \E p \in Procs :
        /\ call[p].op = "Upload" /\ call[p].checkQuota = "false"
        /\ autoCheckQuota
        /\ call[p].size = MaxBytes
        /\ pc[p] = "done"
        /\ ret[p].err = Nil
        /\ sent[p] = <<StorageRequest("POST", UploadPath)>>

\* a call of a session-storing method has returned successfully
Succeeded(p) == pc[p] = "done" /\ call[p].op \in SessionOps /\ ret[p].err = Nil

StoredIsAnswer(p) ==
    /\ accessToken = Last(resp[p]).body.access_token
    /\ refreshToken = Last(resp[p]).body.refresh_token

\* C3 as stated: after every successful SignUp, SignIn, VerifyOTP (all three
\* purposes) and ExchangeOAuthCallback the stored tokens are the tokens of
\* that call's response.
C3_StoredAfterEverySuccess ==
    \A p \in Procs : Succeeded(p) => StoredIsAnswer(p)

\* C3 amended: after a successful SignUp, SignIn, ExchangeOAuthCallback and
\* VerifyOTP with purpose login or signup the stored tokens are the tokens of
\* that call's response; a successful VerifyOTP with purpose password_reset
\* returns the empty AuthSession and no step of it changes the stored tokens.
C3_StoredAfterSignIn ==
    /\ [](\A p \in Procs :
            Succeeded(p) => IF call[p].purpose = "password_reset"
                            THEN ret[p].session = ZeroSession
                            ELSE StoredIsAnswer(p))
    /\ [][\A p \in Procs :
            ((call[p].op = "VerifyOTP" /\ call[p].purpose = "password_reset")
             \/ (call'[p].op = "VerifyOTP" /\ call'[p].purpose = "password_reset"))
            => (accessToken' = accessToken /\ refreshToken' = refreshToken)]_vars

C3_Witness ==
    \E p \in Procs :
        /\ Succeeded(p)
        /\ call[p].op = "VerifyOTP" /\ call[p].purpose = "login"
        /\ Last(resp[p]).body.access_token = "a2"
        /\ accessToken = "a2" /\ refreshToken = "r2"

\* C4: when every goroutine has returned successfully from a call that stores
\* a session, the stored access and refresh tokens are those of one of the
\* calls (never one token from each).
C4_StoredSessionIsOneCall ==
    (\A p \in Procs : Succeeded(p) /\ call[p].purpose # "password_reset")
    => \E p \in Procs :
          /\ accessToken = ret[p].session.AccessToken
          /\ refreshToken = ret[p].session.RefreshToken

\* the auth operations that are not meant to touch the session
FrameOps ==
    {"GetUser", "GetSession", "GetOAuthAuthorizationURL", "ForgotPassword", "ResetPassword",
     "SendOTP", "SendMagicLink", "VerifyEmail", "ResendVerification"}

\* C5: no step of GetUser, GetSession, GetOAuthAuthorizationURL,
\* ForgotPassword, ResetPassword, SendOTP, SendMagicLink, VerifyEmail or
\* ResendVerification, successful or failed, changes the stored tokens.
C5_OtherOpsKeepSession ==
    [][\A p \in Procs :
          (call[p].op \in FrameOps \/ call'[p].op \in FrameOps)
          => (accessToken' = accessToken /\ refreshToken' = refreshToken)]_vars

C5_Witness ==
    \E p \in Procs :
        /\ pc[p] = "done" /\ call[p].op = "ResetPassword" /\ ret[p].err = Nil
        /\ accessToken = "a1" /\ refreshToken = "r1"

\* GetSession has returned and the session in place is the one a sign-in stored
GotSession(p) == pc[p] = "done" /\ call[p].op = "GetSession" /\ issued.live

\* C6 as stated: after a successful sign-in GetSession returns the four
\* values of the AuthSession the sign-in returned.
C6_GetSessionReturnsAllFour ==
    \A p \in Procs : GotSession(p) => ret[p].session = issued.session

\* C6 amended: after a successful sign-in GetSession returns the access and
\* refresh tokens of the AuthSession the sign-in returned, with token type
\* "bearer" and expiry 0 whatever the response carried.
C6_GetSessionReturnsTokens ==
    \A p \in Procs :
        GotSession(p)
        => /\ ret[p].session.AccessToken = issued.session.AccessToken
           /\ ret[p].session.RefreshToken = issued.session.RefreshToken
           /\ ret[p].session.TokenType = "bearer"
           /\ ret[p].session.ExpiresIn = 0

C6_Witness ==
    \E p \in Procs :
        /\ GotSession(p)
        /\ issued.session.AccessToken = "a2" /\ issued.session.RefreshToken = "r2"
        /\ issued.session.TokenType = "mac" /\ issued.session.ExpiresIn = 3600
        /\ ret[p].session.AccessToken = "a2" /\ ret[p].session.RefreshToken = "r2"

\* C7 as stated: no call dispatches more than one request.
C7_OneRoundTrip ==
    \A p \in Procs : Len(sent[p]) <= 1

\* C7 amended: a call dispatches at most one request, except Upload (and
\* UploadFromPath) with the pre-check on, which dispatches at most two: the
\* quota request and then, only after a successful quota answer with enough
\* space, the upload request.
C7_OneRoundTripButCheckedUpload ==
    \A p \in Procs :
        /\ Len(resp[p]) <= Len(sent[p])
        /\ \/ Len(sent[p]) <= 1
           \/ /\ call[p].op = "Upload" /\ PreCheckOn(p)
              /\ Len(sent[p]) = 2
              /\ sent[p][1].path = QuotaPath
              /\ sent[p][2].path = UploadPath
              /\ \E n \in Sizes : QuotaReported(p, n) /\ n >= call[p].size

C7_Witness ==
    \E p \in Procs :
        /\ pc[p] = "done" /\ call[p].op = "Upload"
        /\ Len(sent[p]) = 2 /\ Len(resp[p]) = 2
        /\ ret[p].err = Nil

\* C8: a 403 answer to CreateTable, AlterTable, DropTable or ExecuteSQL, in
\* either SchemaClient, returns a *PermissionError whose message names the
\* service-role key.
C8_ForbiddenIsPermissionError ==
    \A p \in Procs :
        (pc[p] = "done" /\ call[p].client = "schema"
         /\ Last(resp[p]).kind = "http" /\ Last(resp[p]).status = 403)
        => /\ ret[p].err.kind = "PermissionError"
           /\ ret[p].err.msg = "schema operations require a SERVICE ROLE key"

\* C9: FileExists returns (false, nil) exactly when the file-info request
\* fails with a NotFoundError, (true, nil) when it succeeds, and false with
\* the error unchanged for every other error.
C9_FileExists ==
    \A p \in Procs :
        (pc[p] = "done" /\ call[p].op = "FileExists")
        => LET info == GetFileInfoResult(resp[p][1]) IN
           /\ (info.kind = "NotFoundError") <=> (ret[p].exists = FALSE /\ ret[p].err = Nil)
           /\ (info = Nil) => (ret[p].exists = TRUE /\ ret[p].err = Nil)
           /\ (info # Nil /\ info.kind # "NotFoundError")
              => (ret[p].exists = FALSE /\ ret[p].err = info)

C9_Witness ==
    \E p \in Procs :
        /\ pc[p] = "done" /\ call[p].op = "FileExists"
        /\ resp[p][1].kind = "http" /\ resp[p][1].status = 404
        /\ ret[p].exists = FALSE /\ ret[p].err = Nil

\* C10: in every client a transport failure (no response received) makes the
\* call fail with a NetworkError that wraps the transport error.
C10_TransportFailureIsNetworkError ==
    \A p \in Procs :
        (pc[p] = "done" /\ Len(resp[p]) >= 1 /\ Last(resp[p]).kind = "transport")
        => /\ ret[p].err.kind = "NetworkError"
           /\ ret[p].err.cause = Last(resp[p]).terr

\* the request of a returned call ended in a transport failure, a non-2xx
\* status, or a 2xx answer whose body cannot be read or decoded
EndedInFailure(p) ==
    /\ pc[p] = "done" /\ Len(resp[p]) >= 1
    /\ \/ Last(resp[p]).kind = "transport"
       \/ Last(resp[p]).status < 200 \/ Last(resp[p]).status >= 300
       \/ ~Last(resp[p]).body.valid

\* no request of the call was dispatched a second time
DispatchedOnce(p) ==
    /\ Len(resp[p]) <= Len(sent[p])
    /\ \A i, j \in 1..Len(sent[p]) : i # j => sent[p][i] # sent[p][j]

\* C11 as stated: in every client each request of a call is dispatched
\* exactly once, and a call whose request ended in a transport failure, a
\* non-2xx status or an undecodable success body returns a non-nil error.
C11_NoRetryNoSwallow ==
    \A p \in Procs : DispatchedOnce(p) /\ (EndedInFailure(p) => ret[p].err # Nil)

\* the two places where a failed request is answered with a nil error by
\* design: FileExists reads a NotFoundError as "absent", and DeleteFile and
\* DeleteFiles decode no result, so a 2xx body they can read is not looked at
ReportsNoError(p) ==
    \/ /\ call[p].op = "FileExists"
       /\ GetFileInfoResult(Last(resp[p])).kind = "NotFoundError"
       /\ ret[p].exists = FALSE
    \/ /\ call[p].op \in {"DeleteFile", "DeleteFiles"}
       /\ Last(resp[p]).kind = "http"
       /\ Last(resp[p]).status >= 200 /\ Last(resp[p]).status < 300
       /\ Last(resp[p]).body.readable

\* C11 amended: each request of a call is dispatched exactly once, and a call
\* whose request ended in a transport failure, a non-2xx status or an
\* undecodable success body returns a non-nil error, except that FileExists
\* returns (false, nil) on a NotFoundError and that DeleteFile and
\* DeleteFiles return nil for every 2xx answer whose body can be read.
C11_NoRetryNoSwallowButAbsence ==
    \A p \in Procs :
        /\ DispatchedOnce(p)
        /\ EndedInFailure(p) => (ret[p].err = Nil <=> ReportsNoError(p))

C11_Witness ==
    \E p \in Procs :
        /\ pc[p] = "done" /\ call[p].op = "Download"
        /\ sent[p] = <<StorageRequest("GET", "/api/v1/storage/download")>>
        /\ resp[p] = <<Http(200, Garbage)>>
        /\ ret[p].err = WrapError("failed to parse response", "json")

\* the key a client was constructed with
ConfiguredKey(client) ==
    IF client = "auth" THEN apiKey
    ELSE IF client = "storage" THEN StorageKey
    ELSE ServiceKey

\* C12 as stated: every request any client sends carries
\* Authorization: Bearer <key> with the key the client was configured with,
\* for every operation (GetUser included) and every configuration.
C12_BearerIsConfiguredKey ==
    \A p \in Procs : \A i \in 1..Len(sent[p]) :
        sent[p][i].authorization = ConfiguredKey(call[p].client)

\* C12 amended: every request of the storage and schema clients carries
\* Bearer <key> with the client's key; a request of the AuthClient carries
\* Bearer <key> with its key when the key is not empty and no Authorization
\* header when it is empty, except GetUser, whose request carries
\* Bearer <access token> (the token argument, else the stored token).
C12_BearerIsKeyOrUserToken ==
    \A p \in Procs : \A i \in 1..Len(sent[p]) :
        sent[p][i].authorization =
            IF call[p].op = "GetUser"
            THEN IF call[p].tokenOverride # "" THEN call[p].tokenOverride ELSE accessToken
            ELSE IF ConfiguredKey(call[p].client) = "" THEN "absent"
            ELSE ConfiguredKey(call[p].client)

C12_Witness ==
    \E p \in Procs :
        /\ pc[p] = "done" /\ call[p].op = "GetUser" /\ call[p].tokenOverride = ""
        /\ apiKey = "api_key" /\ accessToken = "a1"
        /\ sent[p] = <<Request("GET", "/me", "a1")>>
        /\ ret[p].err = Nil

\* the call has returned after an HTTP answer
Answered(p) == pc[p] = "done" /\ Len(resp[p]) >= 1 /\ Last(resp[p]).kind = "http"

\* the answer was taken for a success: the call returned no error, or it is
\* the quota answer of an Upload whose pre-check then rejected the payload
TakenForSuccess(p) ==
    \/ ret[p].err = Nil /\ ~(call[p].op = "FileExists" /\ ~ret[p].exists)
    \/ /\ call[p].op = "Upload" /\ Last(sent[p]).path = QuotaPath
       /\ ret[p].err.kind = "StorageLimitExceededError"

\* the 200..299 rule for the calls of the clients in cs
TwoHundredsRule(cs) ==
    \A p \in Procs :
        (Answered(p) /\ call[p].client \in cs /\ Last(resp[p]).body.valid)
        => (TakenForSuccess(p)
            <=> (Last(resp[p]).status >= 200 /\ Last(resp[p]).status < 300))

\* C13: every answer with a status in 200..299 is treated as success and its
\* body decoded, every other status is an error, and this is the same for
\* every operation of the Auth, Storage and Schema clients.
C13_TwoHundredsAreSuccess == TwoHundredsRule({"auth", "storage", "schema"})

\* the same rule for the Auth and Storage clients alone
AuthStorageTwoHundredsRule == TwoHundredsRule({"auth", "storage"})

\* C14: a non-2xx answer whose body is not parseable JSON makes the call
\* return an error that carries the raw status code and the raw body text, in
\* the schema operations as in the others.
C14_UnparseableErrorCarriesStatusAndBody ==
    \A p \in Procs :
        (/\ Answered(p)
         /\ Last(resp[p]).status < 200 \/ Last(resp[p]).status >= 300
         /\ Last(resp[p]).body.readable /\ ~Last(resp[p]).body.valid)
        => /\ ret[p].err.status = Last(resp[p]).status
           /\ ret[p].err.msg = "raw body"

\* C15: against a server that never answers every call returns: whatever the
\* way the client was constructed, a call whose request is in flight can
\* (and, the timer being the only thing left to happen, will) fail by timeout.
C15_EveryCallTimesOut ==
    \A p \in Procs : pc[p] = "await" => ENABLED TimedOut(p)

\* C16: concurrent Upload calls with the pre-check on are not serialised
\* against each other: a goroutine can enter Upload whatever the others are
\* doing, and a call whose own quota answer reports n bytes for a payload of
\* at most n has dispatched its upload request, whatever the other call was
\* told and has dispatched.  With N available and sizes a <= N, b <= N,
\* a + b > N both calls so pass the pre-check and both dispatch (C16_Witness).
C16_UploadsNotSerialised ==
    \A p \in Procs :
        /\ pc[p] = "idle" => ENABLED Upload(p)
        /\ \A n \in Sizes :
            (call[p].op = "Upload" /\ PreCheckOn(p) /\ QuotaReported(p, n)
             /\ call[p].size <= n)
            => /\ Len(sent[p]) = 2
               /\ sent[p][2] = StorageRequest("POST", UploadPath)

C16_Witness ==
    \E p, q \in Procs : \E n \in Sizes :
        /\ p # q
        /\ call[p].op = "Upload" /\ PreCheckOn(p) /\ QuotaReported(p, n)
        /\ call[q].op = "Upload" /\ PreCheckOn(q) /\ QuotaReported(q, n)
        /\ call[p].size <= n /\ call[q].size <= n
        /\ call[p].size + call[q].size > n
        /\ pc[p] = "await" /\ InFlight(p) = StorageRequest("POST", UploadPath)
        /\ pc[q] = "await" /\ InFlight(q) = StorageRequest("POST", UploadPath)

\* the argument of the last builder call of a kind, or the fresh builder's
\* value when there was none
LastArg(kind, fresh) ==
    LET calls == {i \in 1..Len(chain) : chain[i].kind = kind} IN
    IF calls = {} THEN fresh
    ELSE chain[CHOOSE i \in calls : \A j \in calls : j <= i].arg

\* the eq calls made so far, in the order they were made
EqCalls == SelectSeq(chain, LAMBDA c : c.kind = "eq")

\* C17: after every sequence of select, eq, orderBy, limit and offset calls,
\* in any order, the accumulated projection, sort, limit and offset are those
\* of the last call of each kind, and the predicate list is the predicates
\* in the order they were appended.
C17_LastCallOfEachKind ==
    /\ builder.projection = LastArg("select", NewBuilder.projection)
    /\ builder.sort = LastArg("orderBy", NewBuilder.sort)
    /\ builder.limit = LastArg("limit", NewBuilder.limit)
    /\ builder.offset = LastArg("offset", NewBuilder.offset)
    /\ builder.predicates = [i \in 1..Len(EqCalls) |-> EqCalls[i].arg]

C17_Witness ==
    /\ Len(chain) = MaxChain
    /\ chain[1] = [kind |-> "select", arg |-> <<"id", "name">>]
    /\ chain[2].kind = "eq"
    /\ chain[Len(chain)] = [kind |-> "select", arg |-> <<"*">>]
    /\ builder.projection = <<"*">>
    /\ builder.predicates = <<chain[2].arg>>

\* C18: updateByID(id, record) and deleteByID(id) address the record with the
\* given identifier, and their request is the one a fresh builder produces:
\* no predicate, sort or pagination accumulated before the call is in it.
C18_ByIDIgnoresAccumulated ==
    /\ query.op = "UpdateByID"
       => /\ query.request = UpdateByIDRequest(NewBuilder, query.id, query.record)
          /\ query.request.id = query.id
    /\ query.op = "DeleteByID"
       => /\ query.request = DeleteByIDRequest(NewBuilder, query.id)
          /\ query.request.id = query.id

C18_Witness ==
    /\ query.op = "UpdateByID" /\ query.pc = "done" /\ query.id = "2"
    /\ Len(builder.predicates) >= 1
    /\ builder.sort # <<>> /\ builder.limit # <<>>
    /\ query.request.id = "2" /\ query.request.predicates = <<>>
    /\ query.result.err = Nil

\* C19: first() issues the read with limit 1 whatever limit was accumulated;
\* an empty result set returns a nil record and a nil error, a non-empty one
\* its first record.
C19_First ==
    query.op = "First"
    => /\ query.request = ReadRequest([builder EXCEPT !.limit = <<1>>])
       /\ (query.pc = "done" /\ query.answer.ok)
          => /\ query.result.err = Nil
             /\ query.result.record =
                    IF query.answer.rows = <<>> THEN "nil" ELSE Head(query.answer.rows)

C19_Witness ==
    /\ query.op = "First" /\ query.pc = "done"
    /\ builder.limit = <<10>>
    /\ query.request.limit = <<1>>
    /\ query.answer = QueryAnswer(TRUE, <<>>)
    /\ query.result = QueryReturn(<<>>, "nil", Nil)

\* unit^k
PowUnit(k) == [i \in 1..Len(UnitValue) |-> IF i = k + 1 THEN 1 ELSE 0]

\* C20: formatBytes(0) = "0 B", formatBytes(1536) = "1.50 KB",
\* formatBytes(1073741824) = "1.00 GB"; for every b in [0, 2^63-1] the unit is
\* B when b < 1024 and otherwise the unit K, M, G, T, P or E with divisor
\* d = 1024^k such that 1 <= b/d < 1024, the index into the unit table never
\* out of range.
C20_FormatBytes ==
    formatted # NotFormatted
    => /\ bytes = <<0, 0, 0, 0, 0, 0, 0>>
          => (formatted.form = "%d B" /\ formatted.whole = 0)
       /\ bytes = <<512, 1, 0, 0, 0, 0, 0>>
          => (/\ formatted.form = "%.2f %cB" /\ formatted.unit = "K"
              /\ formatted.whole = 1 /\ formatted.hundredths = 50)
       /\ bytes = <<0, 0, 0, 1, 0, 0, 0>>
          => (/\ formatted.form = "%.2f %cB" /\ formatted.unit = "G"
              /\ formatted.whole = 1 /\ formatted.hundredths = 0)
       /\ IF LessThanUnit(bytes)
          THEN /\ formatted.form = "%d B" /\ formatted.unit = "B"
               /\ formatted.whole = bytes[1]
          ELSE /\ formatted.form = "%.2f %cB"
               /\ \E k \in DOMAIN UnitLetters :
                    /\ formatted.unit = UnitLetters[k]
                    /\ formatted.exp = k - 1
                    /\ formatted.div = PowUnit(k)
                    /\ bytes[k + 1] >= 1
                    /\ \A i \in (k + 2)..Len(bytes) : bytes[i] = 0

C20_Witness ==
    /\ bytes = <<1023, 1023, 1023, 1023, 1023, 1023, 7>>
    /\ formatted.unit = "E"
    /\ formatted.whole = 8 /\ formatted.hundredths = 0

\* the first request of an Upload is the quota fetch: the pre-check runs
Checked(p) == sent[p][1].path = QuotaPath

\* C21: whether Upload runs the quota pre-check is decided by the per-call
\* argument when it is given and by the client's autoCheckQuota only when it
\* is nil, for every combination of setting and override; a client built by
\* NewStorageClient checks by default.
C21_OverrideWinsDefaultChecks ==
    \A p \in Procs :
        (call[p].op = "Upload" /\ pc[p] \in {"await", "done"})
        => /\ call[p].checkQuota = "true" => Checked(p)
           /\ call[p].checkQuota = "false" => ~Checked(p)
           /\ call[p].checkQuota = "nil" => (Checked(p) <=> autoCheckQuota)
           /\ (built = "NewStorageClient" /\ call[p].checkQuota = "nil") => Checked(p)

C21_Witness ==
    \E p \in Procs :
        /\ call[p].op = "Upload" /\ pc[p] = "done"
        /\ ~autoCheckQuota /\ built = "NewStorageClientWithOptions"
        /\ call[p].checkQuota = "true"
        /\ Checked(p) /\ Len(sent[p]) = 2
        /\ ret[p].err = Nil

\* C22: a SignUp, SignIn, VerifyOTP or ExchangeOAuthCallback that fails
\* (transport error, non-2xx status, 2xx body that does not decode, local
\* validation error) leaves the stored tokens as they were: neither the step
\* that sends its request nor any step of a call that returns an error
\* changes them.
C22_FailedAuthKeepsSession ==
    [][\A p \in Procs :
          (/\ call'[p].op \in SessionOps
           /\ \/ pc'[p] = "await"
              \/ pc'[p] \in {"write", "done"} /\ ret'[p].err # Nil)
          => (accessToken' = accessToken /\ refreshToken' = refreshToken)]_vars

C22_Witness ==
    \E p \in Procs :
        /\ pc[p] = "done" /\ call[p].op = "SignIn"
        /\ Last(resp[p]) = Http(401, EmptyObject)
        /\ ret[p].err.kind = "AuthenticationError"
        /\ accessToken = "a1" /\ refreshToken = "r1"

\* the quota fetch of the call failed: transport error, non-2xx status, or a
\* body that cannot be read or decoded
QuotaFetchFailed(p) ==
    /\ Len(resp[p]) >= 1
    /\ \/ resp[p][1].kind = "transport"
       \/ resp[p][1].status < 200 \/ resp[p][1].status >= 300
       \/ ~resp[p][1].body.valid

UploadsSent(p) == {i \in 1..Len(sent[p]) : sent[p][i].path = UploadPath}

\* C23: with the pre-check on, a failed quota fetch makes Upload return that
\* error with no request sent to the upload endpoint; a quota fetch that
\* reports at least the payload size (equality and a zero-length payload
\* included) is followed by exactly one upload request.
C23_QuotaFetchDecides ==
    \A p \in Procs :
        (call[p].op = "Upload" /\ PreCheckOn(p))
        => /\ QuotaFetchFailed(p)
              => /\ pc[p] = "done"
                 /\ ret[p].err # Nil
                 /\ ret[p].err = GetQuotaResult(resp[p][1]).err
                 /\ UploadsSent(p) = {}
           /\ \A n \in Sizes :
                (QuotaReported(p, n) /\ n >= call[p].size)
                => Cardinality(UploadsSent(p)) = 1

C23_Witness ==
    \E p \in Procs :
        /\ call[p].op = "Upload" /\ PreCheckOn(p)
        /\ call[p].size = 0 /\ QuotaReported(p, 0)
        /\ pc[p] = "done" /\ ret[p].err = Nil
        /\ sent[p] = <<StorageRequest("GET", QuotaPath), StorageRequest("POST", UploadPath)>>

\* C24: GetUser uses the token override when it is not empty and the stored
\* access token otherwise; with both empty it fails locally and sends no
\* request, otherwise its one request carries Authorization: Bearer <token>.
C24_GetUserToken ==
    \A p \in Procs :
        (call[p].op = "GetUser" /\ pc[p] \in {"await", "done"})
        => LET token == IF call[p].tokenOverride # "" THEN call[p].tokenOverride
                        ELSE accessToken
           IN  IF token = ""
               THEN /\ pc[p] = "done"
                    /\ sent[p] = <<>>
                    /\ ret[p].err # Nil
               ELSE sent[p] = <<Request("GET", "/me", token)>>

C24_WitnessNoToken ==
    \E p \in Procs :
        /\ call[p].op = "GetUser" /\ pc[p] = "done"
        /\ call[p].tokenOverride = "" /\ accessToken = ""
        /\ ~issued.live
        /\ sent[p] = <<>>
        /\ ret[p].err.msg = "access token is required to fetch user profile"

C24_Witness ==
    \E p \in Procs :
        /\ call[p].op = "GetUser" /\ pc[p] = "await"
        /\ call[p].tokenOverride = "override" /\ accessToken = "a1"
        /\ sent[p] = <<Request("GET", "/me", "override")>>

\* the two tokens a finished GetSession handed back
Returned(p) == <<ret[p].session.AccessToken, ret[p].session.RefreshToken>>

\* C25: the session accessors round-trip.  A GetSession that follows
\* SetSession(a, r) returns a and r, one that follows ClearSession returns two
\* empty tokens, and either way it returns what is stored; clearing a session
\* that is already empty leaves it empty at every step; and a GetSession call
\* leaves the stored tokens as they were.
C25_SessionAccessors ==
    /\ [](\A p \in Procs :
            (pc[p] = "done" /\ call[p].op = "GetSession")
            => /\ Returned(p) = <<accessToken, refreshToken>>
               /\ handed.by = "SetSession"
                     => Returned(p) = <<handed.AccessToken, handed.RefreshToken>>
               /\ handed.by = "ClearSession" => Returned(p) = <<"", "">>)
    /\ [][\A p \in Procs :
            /\ (pc[p] = "idle" /\ call'[p].op = "GetSession")
               => (accessToken' = accessToken /\ refreshToken' = refreshToken)
            /\ (call'[p].op = "ClearSession" /\ pc'[p] \in {"write", "done"}
                  /\ accessToken = "" /\ refreshToken = "")
               => (accessToken' = "" /\ refreshToken' = "")]_vars

\* GetSession returns the a2 and r1 that SetSession stored
C25_Witness ==
    \E p \in Procs :
        /\ pc[p] = "done" /\ call[p].op = "GetSession"
        /\ handed = [AccessToken |-> "a2", RefreshToken |-> "r1", by |-> "SetSession"]
        /\ Returned(p) = <<"a2", "r1">>

\* GetSession returns two empty tokens after ClearSession
C25_WitnessCleared ==
    \E p \in Procs :
        /\ pc[p] = "done" /\ call[p].op = "GetSession"
        /\ handed.by = "ClearSession"
        /\ Returned(p) = <<"", "">>

\* the calls whose arguments the purpose validation rejects
BadPurpose(c) ==
    \/ c.op \in {"SendOTP", "VerifyOTP"}
          /\ c.purpose \notin {"login", "signup", "password_reset"}
    \/ c.op = "SendMagicLink"
          /\ c.purpose \notin {"login", "signup", "email_verification"}
    \/ c.op = "VerifyOTP" /\ c.purpose = "password_reset" /\ ~c.newPassword

\* C26: purpose validation is local and precedes any I/O.  SendOTP and
\* VerifyOTP with a purpose other than login, signup or password_reset,
\* SendMagicLink with a purpose other than login, signup or
\* email_verification, and VerifyOTP for password_reset without a new
\* password return an error, send no request and leave the session alone.
C26_PurposeCheckedLocally ==
    /\ [](\A p \in Procs :
            (pc[p] # "idle" /\ BadPurpose(call[p]))
            => (pc[p] = "done" /\ sent[p] = <<>> /\ resp[p] = <<>> /\ ret[p].err # Nil))
    /\ [][\A p \in Procs :
            (pc[p] = "idle" /\ BadPurpose(call'[p]))
            => (accessToken' = accessToken /\ refreshToken' = refreshToken)]_vars

\* VerifyOTP for password_reset without a new password has failed locally
\* while a session is stored
C26_Witness ==
    \E p \in Procs :
        /\ pc[p] = "done" /\ call[p].op = "VerifyOTP"
        /\ call[p].purpose = "password_reset" /\ ~call[p].newPassword
        /\ sent[p] = <<>> /\ ret[p].err # Nil
        /\ accessToken = "a1" /\ refreshToken = "r1"

\* SendMagicLink for password_reset has failed locally
C26_WitnessMagicLink ==
    \E p \in Procs :
        /\ pc[p] = "done" /\ call[p].op = "SendMagicLink"
        /\ call[p].purpose = "password_reset"
        /\ sent[p] = <<>> /\ ret[p].err # Nil

\* SendOTP for email_verification has failed locally
C26_WitnessSendOTP ==
    \E p \in Procs :
        /\ pc[p] = "done" /\ call[p].op = "SendOTP"
        /\ call[p].purpose = "email_verification"
        /\ sent[p] = <<>> /\ ret[p].err # Nil

\* the other SchemaClient implementation
OtherImpl(impl) == IF impl = "root" THEN "pkg" ELSE "root"

\* the other implementation takes the answer of a finished schema call the
\* same way: success for success, failure for failure
SameVerdict(p) ==
    (ret[p].err = Nil) <=> (SchemaResult(OtherImpl(call[p].impl), call[p].op, Last(resp[p])) = Nil)

\* C27: the two SchemaClient implementations are equivalent at the HTTP
\* boundary: for each of CreateTable, AlterTable, DropTable and ExecuteSQL
\* they send the same method, path and headers, and for every answer they
\* agree on whether the call succeeds or fails.
C27_SchemaImplsEquivalent ==
    \A p \in Procs :
        (call[p].client = "schema" /\ pc[p] \in {"await", "done"})
        => /\ sent[p] = <<SchemaRequest(call[p].op)>>
           /\ pc[p] = "done" => SameVerdict(p)

\* what does hold: the requests are the same, and the verdicts are the same
\* for every answer but 201 to CreateTable
SchemaImplsAgreeButOnCreated ==
    \A p \in Procs :
        (call[p].client = "schema" /\ pc[p] \in {"await", "done"})
        => /\ sent[p] = <<SchemaRequest(call[p].op)>>
           /\ (pc[p] = "done" /\ ~SameVerdict(p))
                 => (call[p].op = "CreateTable" /\ Last(resp[p]).kind = "http"
                       /\ Last(resp[p]).status = 201)

\* the Authorization of a request the auth client builds by itself
OwnBearer == IF apiKey = "" THEN "absent" ELSE apiKey

\* C28: the auth client's bearer key is AuthConfig.APIKey when that is not
\* empty and AuthConfig.PublicAPIKey otherwise; every request without a
\* caller header carries it; and no operation, SetSession, ClearSession and
\* successful sign-ins included, ever changes it.
C28_BearerKeyFixed ==
    /\ [](/\ apiKey = (IF config.APIKey # "" THEN config.APIKey ELSE config.PublicAPIKey)
          /\ publicKey = apiKey
          /\ \A p \in Procs :
                (call[p].client = "auth" /\ call[p].op # "GetUser" /\ sent[p] # <<>>)
                => sent[p][1].authorization = OwnBearer)
    /\ [][apiKey' = apiKey /\ publicKey' = publicKey]_vars

\* both keys configured: a request carries APIKey after a sign-in stored a
\* session
C28_Witness ==
    \E p \in Procs :
        /\ config = [APIKey |-> "api_key", PublicAPIKey |-> "public_key"]
        /\ issued.live /\ accessToken = "a1"
        /\ call[p].op = "SendOTP" /\ pc[p] = "await"
        /\ sent[p][1].authorization = "api_key"

\* only the deprecated key configured: a request carries it after SetSession
C28_WitnessPublicKey ==
    \E p \in Procs :
        /\ config = [APIKey |-> "", PublicAPIKey |-> "public_key"]
        /\ handed.by = "SetSession" /\ accessToken = "a2"
        /\ call[p].op = "SignIn" /\ pc[p] = "await"
        /\ sent[p][1].authorization = "public_key"

\* the scheme the Secure flag selects and the base domain in force
SecureScheme == IF project.Secure THEN HttpsPrefix ELSE HttpPrefix
Domain == IF project.BaseDomain = <<>> THEN DefaultBaseDomain ELSE project.BaseDomain

\* full URLs that end neither in "/" nor in "/api"
FullURLs ==
    {s \o h \o q : s \in {HttpPrefix, HttpsPrefix}, h \in UrlHosts, q \in {<<>>, <<"/", "v1">>}}

\* C29: buildAuthBaseURL normalises the project URL.  A full URL given as U,
\* U/, U/api or U/api/ yields U/api/auth with its own scheme, whatever Secure
\* is; a bare slug yields <scheme>://<slug>.<baseDomain>/api/auth; a host
\* that already ends in the base domain yields <scheme>://<host>/api/auth;
\* the scheme is https when Secure is true and http when it is false, and
\* the base domain is wowsql.com when none is configured.
C29_AuthBaseURL ==
    baseURL # NotBuilt
    => /\ \A U \in FullURLs, tail \in {<<>>, Slash, ApiSuffix, ApiSuffix \o Slash} :
             project.ProjectURL = U \o tail => baseURL = U \o ApiAuth
       /\ project.ProjectURL = <<"proj">>
             => baseURL = SecureScheme \o <<"proj">> \o Dot \o Domain \o ApiAuth
       /\ \A h \in UrlHosts :
             (project.ProjectURL = h /\ HasSuffix(h, Domain))
             => baseURL = SecureScheme \o h \o ApiAuth
       /\ (project.ProjectURL = <<"proj">> /\ project.BaseDomain = <<>> /\ project.Secure)
             => baseURL = <<"https:", "/", "/", "proj", ".", "wowsql", ".", "com",
                            "/", "api", "/", "auth">>

\* http://proj.wowsql.com/api/ with Secure set keeps its http scheme
C29_Witness ==
    /\ project.ProjectURL = <<"http:", "/", "/", "proj", ".", "wowsql", ".", "com", "/", "api", "/">>
    /\ project.Secure
    /\ baseURL = <<"http:", "/", "/", "proj", ".", "wowsql", ".", "com", "/", "api", "/", "auth">>

\* the slug proj with Secure false and no BaseDomain
C29_WitnessSlug ==
    /\ project = [ProjectURL |-> <<"proj">>, BaseDomain |-> <<>>, Secure |-> FALSE]
    /\ baseURL = <<"http:", "/", "/", "proj", ".", "wowsql", ".", "com", "/", "api", "/", "auth">>

\* the host proj.example.org with BaseDomain example.org
C29_WitnessHost ==
    /\ project = [ProjectURL |-> <<"proj", ".", "example", ".", "org">>,
                  BaseDomain |-> <<"example", ".", "org">>, Secure |-> TRUE]
    /\ baseURL = <<"https:", "/", "/", "proj", ".", "example", ".", "org", "/", "api", "/", "auth">>

\* a ListFiles call whose request has left
Listing(p) == call[p].op = "ListFiles" /\ pc[p] \in {"await", "done"} /\ sent[p] # <<>>

\* C30: ListFiles builds its query string from exactly the parameters that
\* are set: no "?" when the prefix is empty and the limit is not positive,
\* "?prefix=p" for a prefix alone, "?limit=n" for a positive limit alone,
\* "?prefix=p&limit=n" for both; a limit of zero or less is never sent.
C30_ListFilesQuery ==
    \A p \in Procs :
        Listing(p)
        => LET path == sent[p][1].path
               pre == call[p].prefix
               n == call[p].limit
           IN  /\ Len(sent[p]) = 1 /\ sent[p][1].method = "GET"
               /\ (pre = <<>> /\ n <= 0) => path = ListPath
               /\ (pre # <<>> /\ n <= 0) => path = ListPath \o <<"?", "prefix=">> \o pre
               /\ (pre = <<>> /\ n > 0) => path = ListPath \o <<"?", "limit=">> \o Decimal(n)
               /\ (pre # <<>> /\ n > 0)
                     => path = ListPath \o <<"?", "prefix=">> \o pre \o <<"&", "limit=">> \o Decimal(n)
               /\ n <= 0 => ~Contains(path, <<"limit=">>)

\* ListFiles("uploads/", 12) asks for ?prefix=uploads/&limit=12
C30_Witness ==
    \E p \in Procs :
        /\ Listing(p) /\ call[p].prefix = <<"uploads", "/">> /\ call[p].limit = 12
        /\ sent[p][1].path = <<"/api/v1/storage/list", "?", "prefix=", "uploads", "/",
                               "&", "limit=", "1", "2">>

\* ListFiles("uploads/", 0), the call of the README, sends the prefix alone
C30_WitnessPrefixOnly ==
    \E p \in Procs :
        /\ Listing(p) /\ call[p].prefix = <<"uploads", "/">> /\ call[p].limit = 0
        /\ sent[p][1].path = <<"/api/v1/storage/list", "?", "prefix=", "uploads", "/">>

\* ListFiles("", -3) sends no query string
C30_WitnessBare ==
    \E p \in Procs :
        /\ Listing(p) /\ call[p].prefix = <<>> /\ call[p].limit < 0
        /\ sent[p][1].path = <<"/api/v1/storage/list">>
====
